---- MODULE Spec2Model ----
(***************************************************************************)
(* Model of tantivy's low-level storage substrate:                         *)
(*   - stacker/src/memory_arena.rs   (Addr, Page, MemoryArena)             *)
(*   - src/directory/composite_file.rs (CompositeWrite, CompositeFile)     *)
(*   - common/src/serialize.rs       (BinarySerializable primitives)       *)
(*                                                                         *)
(* Representation notes.                                                   *)
(*   u32 values (Addr) are kept as two 16-bit limbs [hi, lo]: the model    *)
(*   checker's integers are signed 32-bit, and the null address is 2^32-1. *)
(*   A page buffer is 1 MiB, so arena bytes are kept as canonical runs     *)
(*   <<[n |-> count, b |-> byte], ...>> (adjacent runs differ, no empty    *)
(*   run); the buffer length is the sum of the counts.                     *)
(*   File bytes of the composite file are plain sequences of 0..255.       *)
(*   Fixed-width integers of the serialization layer are kept as 16-bit    *)
(*   limbs, least significant first; a u64 read from a VInt as limbs of    *)
(*   28, 28 and 8 bits; text as the UTF-8 bytes a String holds.            *)
(***************************************************************************)
EXTENDS Integers, Sequences, FiniteSets, TLC

VARIABLES
    pages,      \* MemoryArena.pages : Seq of [page_id, len, data]
    status,     \* "ok" | "panicked" | "aborted" | "undefined" (arena's thread)
    allocs,     \* history of the allocate_space calls that returned
    ret,        \* the latest arena call and what it returned
    nwrites,    \* number of write_at calls so far
    cw,         \* CompositeWrite: [write, offsets, state]
    sink,       \* per segment (in write order), the bytes the caller wrote
    file,       \* the bytes handed to the reader after close()
    cf,         \* result of CompositeFile::open on file
    io,         \* calls close() made on its writer: [call, bytes, ok]
    readers,    \* per reader thread, the lookup it is in and what it got
    ser,        \* a value or input of the serialization layer and its results
    jw          \* a JsonPathWriter, the segments pushed and as_str() before each

vars == <<pages, status, allocs, ret, nwrites, cw, sink, file, cf, io, readers, ser, jw>>
arenaVars == <<pages, status, allocs, ret, nwrites>>
compositeVars == <<cw, sink, file, cf>>

(***************************************************************************)
(* Bounds of the model                                                     *)
(***************************************************************************)
MaxAllocs == 3
MaxWrites == 1
MaxSegments == 3
MaxChunks == 1
PrefilledPages == 4094

(***************************************************************************)
(* Program constants                                                       *)
(***************************************************************************)
NUM_BITS_PAGE_ADDR == 20
PAGE_SIZE == 2 ^ NUM_BITS_PAGE_ADDR
MAX_PAGES == 4096
LIMB == 2 ^ 16

(***************************************************************************)
(* Bit operations on naturals                                              *)
(***************************************************************************)
RECURSIVE BitOr(_, _)
BitOr(a, b) ==
    IF a = 0 THEN b
    ELSE IF b = 0 THEN a
    ELSE (IF a % 2 = 1 \/ b % 2 = 1 THEN 1 ELSE 0) + 2 * BitOr(a \div 2, b \div 2)

RECURSIVE BitAnd(_, _)
BitAnd(a, b) ==
    IF a = 0 \/ b = 0 THEN 0
    ELSE (IF a % 2 = 1 /\ b % 2 = 1 THEN 1 ELSE 0) + 2 * BitAnd(a \div 2, b \div 2)

(***************************************************************************)
(* Addr(u32)                                                               *)
(***************************************************************************)
\* Addr::null_pointer(): Self(u32::MAX)
null_pointer == [hi |-> LIMB - 1, lo |-> LIMB - 1]

\* Addr::new: ((page_id << NUM_BITS_PAGE_ADDR) | local_addr) as u32.
\* page_id << 20 has low limb 0 and next limb page_id * 2^(20-16).
Addr_new(page_id, local_addr) ==
    [hi |-> (BitOr(page_id * (2 ^ (NUM_BITS_PAGE_ADDR - 16)), local_addr \div LIMB)) % LIMB,
     lo |-> BitOr(0, local_addr % LIMB)]

\* Addr::page_id: (self.0 as usize) >> NUM_BITS_PAGE_ADDR
Addr_page_id(addr) == addr.hi \div (2 ^ (NUM_BITS_PAGE_ADDR - 16))

\* Addr::page_local_addr: (self.0 as usize) & (PAGE_SIZE - 1)
Addr_page_local_addr(addr) ==
    (BitAnd(addr.hi, (PAGE_SIZE - 1) \div LIMB) * LIMB)
        + BitAnd(addr.lo, (PAGE_SIZE - 1) % LIMB)

\* Addr::offset: Self(self.0.wrapping_add(offset)), offset given as a natural < 2^31
Addr_offset(addr, offset) ==
    LET lo == addr.lo + (offset % LIMB)
        hi == addr.hi + (offset \div LIMB) + (lo \div LIMB)
    IN [hi |-> hi % LIMB, lo |-> lo % LIMB]

\* Addr::is_null: self.0 == u32::MAX
is_null(addr) == addr = null_pointer

(***************************************************************************)
(* Byte strings as runs                                                    *)
(***************************************************************************)
RECURSIVE RLen(_)
RLen(r) == IF r = <<>> THEN 0 ELSE Head(r).n + RLen(Tail(r))

RCons(run, r) ==
    IF run.n = 0 THEN r
    ELSE IF r # <<>> /\ Head(r).b = run.b
         THEN <<[n |-> run.n + Head(r).n, b |-> run.b]>> \o Tail(r)
         ELSE <<run>> \o r

RECURSIVE RCat(_, _)
RCat(a, b) == IF a = <<>> THEN b ELSE RCons(Head(a), RCat(Tail(a), b))

RECURSIVE RTake(_, _)
RTake(r, k) ==
    IF k = 0 \/ r = <<>> THEN <<>>
    ELSE IF Head(r).n >= k THEN <<[n |-> k, b |-> Head(r).b]>>
    ELSE <<Head(r)>> \o RTake(Tail(r), k - Head(r).n)

RECURSIVE RDrop(_, _)
RDrop(r, k) ==
    IF k = 0 \/ r = <<>> THEN r
    ELSE IF Head(r).n > k THEN <<[n |-> Head(r).n - k, b |-> Head(r).b]>> \o Tail(r)
    ELSE RDrop(Tail(r), k - Head(r).n)

\* n copies of byte b
RFill(n, b) == IF n = 0 THEN <<>> ELSE <<[n |-> n, b |-> b]>>

(***************************************************************************)
(* Page                                                                    *)
(***************************************************************************)
\* Page::new (the assert!(page_id < 4096) is Page_new_asserts)
Page_new(page_id) ==
    [page_id |-> page_id, len |-> 0, data |-> RFill(PAGE_SIZE, 0)]

\* the assertion of Page::new off by one: page_id <= 4096
Page_new_asserts_off_by_one(page_id) == page_id <= MAX_PAGES

Page_new_asserts(page_id) == page_id < MAX_PAGES

\* Page::is_available
is_available(page, len) == len + page.len <= PAGE_SIZE

\* Page::allocate_space: Option<Addr> and the page afterwards
Page_allocate_space(page, len) ==
    IF is_available(page, len)
    THEN [some |-> TRUE, addr |-> Addr_new(page.page_id, page.len),
          page |-> [page EXCEPT !.len = page.len + len]]
    ELSE [some |-> FALSE, page |-> page]

\* Page::slice_from: &self.data[local_addr..] (bounds-checked: panics past the end)
Page_slice_from(page, local_addr) == RDrop(page.data, local_addr)

\* Page::slice / slice_mut take ..len unchecked: defined only when this holds
Page_slice_defined(page, local_addr, len) ==
    local_addr <= RLen(page.data) /\ len <= RLen(page.data) - local_addr

\* Page::slice: the bytes of a defined slice
Page_slice(page, local_addr, len) == RTake(Page_slice_from(page, local_addr), len)

\* Page::slice_mut(local_addr, len) followed by a store of `bytes` (len = RLen(bytes))
Page_store(page, local_addr, bytes) ==
    [page EXCEPT !.data =
        RCat(RTake(page.data, local_addr),
             RCat(bytes, RDrop(page.data, local_addr + RLen(bytes))))]

(***************************************************************************)
(* MemoryArena (operators on the page vector `ps`)                         *)
(***************************************************************************)
\* MemoryArena::default: one page, id 0
MemoryArena_default == <<Page_new(0)>>

\* MemoryArena::mem_usage
MemoryArena_mem_usage(ps) == Len(ps) * PAGE_SIZE

\* MemoryArena::len: pages.len().saturating_sub(1) * PAGE_SIZE + pages.last().len
MemoryArena_len(ps) ==
    ((IF Len(ps) >= 1 THEN Len(ps) - 1 ELSE 0) * PAGE_SIZE) + ps[Len(ps)].len

\* MemoryArena::get_page / get_page_mut: get_unchecked, defined only for an
\* existing page
get_page_defined(ps, page_id) == page_id < Len(ps)

get_page(ps, page_id) == ps[page_id + 1]

\* MemoryArena::slice / slice_mut are defined (no out-of-bounds access) when
\* the page exists and the range lies inside its buffer
MemoryArena_slice_defined(ps, addr, len) ==
    /\ get_page_defined(ps, Addr_page_id(addr))
    /\ Page_slice_defined(get_page(ps, Addr_page_id(addr)), Addr_page_local_addr(addr), len)

\* MemoryArena::slice
MemoryArena_slice(ps, addr, len) ==
    Page_slice(get_page(ps, Addr_page_id(addr)), Addr_page_local_addr(addr), len)

\* MemoryArena::write_at: store(self.slice_mut(addr, size_of::<Item>()), val)
MemoryArena_write_at(ps, addr, val) ==
    [ps EXCEPT ![Addr_page_id(addr) + 1] =
        Page_store(ps[Addr_page_id(addr) + 1], Addr_page_local_addr(addr), val)]

\* MemoryArena::read: load(self.slice(addr, size_of::<Item>()))
MemoryArena_read(ps, addr, size) == MemoryArena_slice(ps, addr, size)

\* add_page without `page.len = len`: the new page's cursor stays 0
add_page_cursor_not_set(ps, len) ==
    LET new_page_id == Len(ps)
    IN IF ~Page_new_asserts(new_page_id)
       THEN [panic |-> TRUE, pages |-> ps]
       ELSE [panic |-> FALSE,
             pages |-> Append(ps, Page_new(new_page_id)),
             addr |-> Addr_new(new_page_id, 0)]

\* MemoryArena::add_page
add_page(ps, len) ==
    LET new_page_id == Len(ps)
    IN IF ~Page_new_asserts(new_page_id)
       THEN [panic |-> TRUE, pages |-> ps]
       ELSE [panic |-> FALSE,
             pages |-> Append(ps, [Page_new(new_page_id) EXCEPT !.len = len]),
             addr |-> Addr_new(new_page_id, 0)]

\* MemoryArena::allocate_space
MemoryArena_allocate_space(ps, len) ==
    LET page_id == Len(ps) - 1
        r == Page_allocate_space(get_page(ps, page_id), len)
    IN IF r.some
       THEN [panic |-> FALSE, pages |-> [ps EXCEPT ![page_id + 1] = r.page], addr |-> r.addr]
       ELSE add_page(ps, len)

(***************************************************************************)
(* Arena: inputs                                                           *)
(***************************************************************************)
\* request lengths: empty, small, up to the page end, a whole page, oversized
AllocLens == {0, 1, PAGE_SIZE - 1, PAGE_SIZE, PAGE_SIZE + 1}

\* object representations of the Copy values written (as runs)
Items ==
    { <<>>,
      RFill(1, 143),
      <<[n |-> 1, b |-> 21], [n |-> 1, b |-> 32]>>,
      RFill(PAGE_SIZE + 1, 113) }

\* n bytes of indeterminate memory (shown as 0xAA)
Garbage(n) == RFill(n, 170)

NoAddr == [hi |-> 0, lo |-> 0]

Ret(op, outcome, len, addr, i, value) ==
    [op |-> op, outcome |-> outcome, len |-> len, addr |-> addr, i |-> i, value |-> value]

(***************************************************************************)
(* Arena: actions                                                          *)
(***************************************************************************)
\* arena.allocate_space(l)
AllocateSpace(l) ==
    /\ status = "ok"
    /\ Len(allocs) < MaxAllocs
    /\ LET r == MemoryArena_allocate_space(pages, l)
       IN IF r.panic
          THEN /\ status' = "panicked"
               /\ pages' = r.pages
               /\ allocs' = allocs
               /\ ret' = Ret("allocate_space", "panic", l, NoAddr, 0, <<>>)
          ELSE /\ status' = status
               /\ pages' = r.pages
               /\ allocs' = Append(allocs,
                     [addr |-> r.addr, len |-> l, has |-> FALSE, val |-> <<>>,
                      npages |-> Len(pages), cursor |-> pages[Len(pages)].len,
                      back_to_back |-> (ret.op = "allocate_space")])
               /\ ret' = Ret("allocate_space", "ok", l, r.addr, Len(allocs) + 1, <<>>)
    /\ nwrites' = nwrites
    /\ UNCHANGED <<compositeVars, io, readers, ser, jw>>

\* arena.write_at(allocs[i].addr, v), v no larger than the allocation.
\* An access outside the page vector or outside the page buffer is undefined
\* behaviour (get_unchecked): the build either aborts (the precondition check
\* of a build with debug assertions) or stores all of v through
\* get_unchecked_mut(..len). The bytes of v that do not fit into the buffer
\* then land in the memory behind it, which is whatever the allocator placed
\* there: memory that is not the arena's (q = 0), or the buffer of another
\* page q of the arena. A page that does not exist is only reached by a
\* store of no bytes.
WriteAt(i, v) ==
    /\ status = "ok"
    /\ nwrites < MaxWrites
    /\ i \in 1..Len(allocs)
    /\ RLen(v) <= allocs[i].len
    /\ LET addr == allocs[i].addr
           pid == Addr_page_id(addr)
           local == Addr_page_local_addr(addr)
       IN IF MemoryArena_slice_defined(pages, addr, RLen(v))
          THEN /\ pages' = MemoryArena_write_at(pages, addr, v)
               /\ status' = status
               /\ allocs' = [allocs EXCEPT ![i].has = TRUE, ![i].val = v]
               /\ ret' = Ret("write_at", "ok", RLen(v), addr, i, v)
          ELSE \/ /\ status' = "aborted"
                  /\ pages' = pages
                  /\ allocs' = allocs
                  /\ ret' = Ret("write_at", "abort", RLen(v), addr, i, v)
               \/ /\ status' = "undefined"
                  /\ IF ~get_page_defined(pages, pid) THEN pages' = pages
                     ELSE LET inside == RLen(pages[pid + 1].data) - local
                              stored == MemoryArena_write_at(pages, addr, RTake(v, inside))
                              behind == RDrop(v, inside)
                          IN \E q \in 0..Len(pages) :
                                /\ q # pid + 1
                                /\ pages' = IF q = 0 THEN stored
                                            ELSE [stored EXCEPT
                                                    ![q] = Page_store(stored[q], 0, behind)]
                  /\ allocs' = [allocs EXCEPT ![i].has = TRUE, ![i].val = v]
                  /\ ret' = Ret("write_at", "undefined", RLen(v), addr, i, v)
    /\ nwrites' = nwrites + 1
    /\ UNCHANGED <<compositeVars, io, readers, ser, jw>>

\* arena.read::<Item>(allocs[i].addr) for the type last written there.
\* Out of bounds the result is indeterminate: an abort, the bytes written, or
\* the bytes of the buffer followed by whatever lies behind it.
Read(i) ==
    /\ status \in {"ok", "undefined"}
    /\ i \in 1..Len(allocs)
    /\ allocs[i].has
    /\ LET addr == allocs[i].addr
           size == RLen(allocs[i].val)
           pid == Addr_page_id(addr)
           local == Addr_page_local_addr(addr)
       IN IF MemoryArena_slice_defined(pages, addr, size)
          THEN /\ ret' = Ret("read", "ok", size, addr, i, MemoryArena_read(pages, addr, size))
               /\ status' = status
          ELSE \/ /\ ret' = Ret("read", "abort", size, addr, i, <<>>)
                  /\ status' = "aborted"
               \/ /\ \E got \in
                        { allocs[i].val,
                          IF get_page_defined(pages, pid)
                          THEN LET inside == Page_slice_from(pages[pid + 1], local)
                               IN RCat(inside, Garbage(size - RLen(inside)))
                          ELSE Garbage(size) } :
                        ret' = Ret("read", "undefined", size, addr, i, got)
                  /\ status' = "undefined"
    /\ UNCHANGED <<pages, allocs, nwrites>>
    /\ UNCHANGED <<compositeVars, io, readers, ser, jw>>

NextArena ==
    \/ \E l \in AllocLens : AllocateSpace(l)
    \/ \E i \in 1..MaxAllocs, v \in Items : WriteAt(i, v)
    \/ \E i \in 1..MaxAllocs : Read(i)

(***************************************************************************)
(* Binary serialization primitives (bytes are sequences of 0..255; a       *)
(* deserializer returns [ok, val, rest], rest being the unread input)      *)
(***************************************************************************)
\* the byte order every fixed-width integer is written in
Endianness == "little"

DeOk(val, rest) == [ok |-> TRUE, val |-> val, rest |-> rest]
DeErr == [ok |-> FALSE]

\* <u32 as BinarySerializable>::serialize: writer.write_u32::<Endianness>
u32_serialize(v) ==
    LET le == << v % 256, (v \div 256) % 256, (v \div 65536) % 256, (v \div 16777216) % 256 >>
    IN IF Endianness = "little" THEN le ELSE << le[4], le[3], le[2], le[1] >>

\* <u32 as BinarySerializable>::deserialize: reader.read_u32::<Endianness>,
\* UnexpectedEof when fewer than 4 bytes are left
u32_deserialize(buf) ==
    IF Len(buf) < 4 THEN DeErr
    ELSE LET b == IF Endianness = "little" THEN buf ELSE << buf[4], buf[3], buf[2], buf[1] >>
         IN DeOk(b[1] + (256 * b[2]) + (65536 * b[3]) + (16777216 * b[4]),
                 SubSeq(buf, 5, Len(buf)))

\* VInt::serialize: 7 payload bits per byte, least significant group first,
\* high bit set on every byte but the last
RECURSIVE VInt_serialize(_)
VInt_serialize(v) ==
    IF v \div 128 = 0 THEN << v % 128 >>
    ELSE << (v % 128) + 128 >> \o VInt_serialize(v \div 128)

\* u64 / usize values read from a file, as limbs <<l0, l1, l2>> of 28, 28 and
\* 8 bits (value l0 + 2^28 * l1 + 2^56 * l2): the limbs hold 4, 4 and 2 groups
\* of 7 VInt payload bits
U64_LIMB == 2 ^ 28

U64_from(n) == << n % U64_LIMB, n \div U64_LIMB, 0 >>

\* a + b on 64 bits: the wrapped sum and whether it overflowed
U64_add(a, b) ==
    LET s0 == a[1] + b[1]
        s1 == a[2] + b[2] + (s0 \div U64_LIMB)
        s2 == a[3] + b[3] + (s1 \div U64_LIMB)
    IN [overflow |-> s2 >= 2 ^ 8,
        val |-> << s0 % U64_LIMB, s1 % U64_LIMB, s2 % (2 ^ 8) >>]

U64_le(a, b) ==
    \/ a[3] < b[3]
    \/ a[3] = b[3] /\ a[2] < b[2]
    \/ a[3] = b[3] /\ a[2] = b[2] /\ a[1] <= b[1]

\* the u64 as a number: the cast `as usize` keeps the value. Numbers hold
\* values below 2^31 only, and the limbs are turned into one only where the
\* value is known to be at most a length of the input.
U64_to_nat(a) == a[1] + (a[2] * U64_LIMB) + ((a[3] * U64_LIMB) * U64_LIMB)

\* the turns of `for _ in 0..n` that are entered on the input buf, when a turn
\* reads at least one byte or returns the error of a read at the end of the
\* input: all n of them, or Len(buf) + 1, the last of which returns the error
loop_turns(n, buf) ==
    IF U64_le(n, U64_from(Len(buf))) THEN U64_to_nat(n) ELSE Len(buf) + 1

\* result | payload: the payload group is not shifted into its position
U64_or_group_unshifted(result, k, payload) ==
    [result EXCEPT ![1] = (result[1] + payload) % U64_LIMB]

\* result | (payload << (7 * k)) for the k-th payload group, bits from 64 up lost
U64_or_group(result, k, payload) ==
    LET limb == (k \div 4) + 1
        bits == IF k = 9 THEN payload % 2 ELSE payload
    IN [result EXCEPT ![limb] = result[limb] + (bits * (2 ^ (7 * (k % 4))))]

\* VInt::deserialize: reads until a byte without the high bit; fails at the
\* end of the input, and on an encoding of more than 10 bytes
RECURSIVE VInt_deserialize_from(_, _, _)
VInt_deserialize_from(buf, result, k) ==
    IF buf = <<>> \/ k > 9 THEN DeErr
    ELSE IF Head(buf) >= 128
         THEN VInt_deserialize_from(Tail(buf), U64_or_group(result, k, Head(buf) % 128), k + 1)
         ELSE LET v == U64_or_group(result, k, Head(buf))
              IN [ok |-> TRUE, u64 |-> v, rest |-> Tail(buf)]

VInt_deserialize(buf) == VInt_deserialize_from(buf, U64_from(0), 0)

\* Field (a u32 field id) serializes as its u32
Field_serialize(field) == u32_serialize(field)

Field_deserialize(buf) == u32_deserialize(buf)

\* the chunks one after the other
RECURSIVE Flatten(_)
Flatten(chunks) ==
    IF Len(chunks) = 0 THEN <<>>
    ELSE IF Len(chunks) = 1 THEN chunks[1]
    ELSE LET half == Len(chunks) \div 2
         IN Flatten(SubSeq(chunks, 1, half)) \o Flatten(SubSeq(chunks, half + 1, Len(chunks)))

\* an error of a deserializer, with its io::ErrorKind
DeError(kind) == [ok |-> FALSE, kind |-> kind]

\* a deserializer that panicked
DePanic == [ok |-> FALSE, kind |-> "panic"]

\* byte k (from 0, least significant first) of an integer held as 16-bit limbs
limb_byte(limbs, k) == (limbs[(k \div 2) + 1] \div (256 ^ (k % 2))) % 256

\* writer.write_uN::<Endianness>(v) for an integer of n bytes
write_uint(limbs, n) ==
    LET le == [k \in 1..n |-> limb_byte(limbs, k - 1)]
    IN IF Endianness = "little" THEN le ELSE [k \in 1..n |-> le[(n + 1) - k]]

\* read_uN reading the most significant byte first
read_uint_big_endian(buf, n) ==
    IF Len(buf) < n THEN DeError("UnexpectedEof")
    ELSE LET le == [k \in 1..n |-> buf[(n + 1) - k]]
         IN DeOk([j \in 1..((n + 1) \div 2) |->
                     le[(2 * j) - 1] + (IF 2 * j <= n THEN 256 * le[2 * j] ELSE 0)],
                 SubSeq(buf, n + 1, Len(buf)))

\* reader.read_uN::<Endianness>() for an integer of n bytes: UnexpectedEof
\* when fewer than n bytes are left
read_uint(buf, n) ==
    IF Len(buf) < n THEN DeError("UnexpectedEof")
    ELSE LET le == IF Endianness = "little" THEN SubSeq(buf, 1, n)
                   ELSE [k \in 1..n |-> buf[(n + 1) - k]]
         IN DeOk([j \in 1..((n + 1) \div 2) |->
                     le[(2 * j) - 1] + (IF 2 * j <= n THEN 256 * le[2 * j] ELSE 0)],
                 SubSeq(buf, n + 1, Len(buf)))

\* <u8>::serialize / deserialize (a u8 is held as a number)
write_u8(v) == << v >>

read_u8(buf) == IF buf = <<>> THEN DeError("UnexpectedEof") ELSE DeOk(Head(buf), Tail(buf))

\* <u16>, <u32> (any of its 2^32 values, as limbs), <u64>, <u128>
write_u16(v) == write_uint(v, 2)

read_u16(buf) == read_uint(buf, 2)

write_u32(v) == write_uint(v, 4)

read_u32(buf) == read_uint(buf, 4)

write_u64(v) == write_uint(v, 8)

read_u64(buf) == read_uint(buf, 8)

write_u128(v) == write_uint(v, 16)

read_u128(buf) == read_uint(buf, 16)

\* f32 and f64 are held as the limbs of their IEEE-754 bits
write_f32(v) == write_uint(v, 4)

read_f32(buf) == read_uint(buf, 4)

write_f64(v) == write_uint(v, 8)

read_f64(buf) == read_uint(buf, 8)

\* 2^64 - m on four limbs (the two's complement of m)
I64_negate(m) ==
    LET c1 == (65535 - m[1]) + 1
        c2 == (65535 - m[2]) + (c1 \div 65536)
        c3 == (65535 - m[3]) + (c2 \div 65536)
        c4 == (65535 - m[4]) + (c3 \div 65536)
    IN << c1 % 65536, c2 % 65536, c3 % 65536, c4 % 65536 >>

\* an i64 is held as [neg, mag]: its sign and the limbs of its magnitude;
\* write_i64 writes its two's complement
write_i64(v) == write_uint(IF v.neg THEN I64_negate(v.mag) ELSE v.mag, 8)

read_i64(buf) ==
    LET bits == read_uint(buf, 8)
    IN IF ~bits.ok THEN bits
       ELSE IF bits.val[4] >= 32768
            THEN DeOk([neg |-> TRUE, mag |-> I64_negate(bits.val)], bits.rest)
            ELSE DeOk([neg |-> FALSE, mag |-> bits.val], bits.rest)

\* <bool>::serialize: u8::from(*self)
bool_serialize(v) == write_u8(IF v THEN 1 ELSE 0)

\* bool decode taking every byte but 0 for true
bool_deserialize_nonzero_is_true(buf) ==
    LET val == read_u8(buf)
    IN IF ~val.ok THEN val ELSE DeOk(val.val # 0, val.rest)

\* <bool>::deserialize
bool_deserialize(buf) ==
    LET val == read_u8(buf)
    IN IF ~val.ok THEN val
       ELSE IF val.val = 0 THEN DeOk(FALSE, val.rest)
       ELSE IF val.val = 1 THEN DeOk(TRUE, val.rest)
       ELSE DeError("InvalidData")

\* the k-th group (from 0) of 7 bits of a u64
U64_group(v, k) == (v[(k \div 4) + 1] \div (2 ^ (7 * (k % 4)))) % 128

\* every VInt written as ten bytes, the high groups as zero payload
RECURSIVE VInt_serialize_padded(_, _)
VInt_serialize_padded(v, k) ==
    IF k = 9 THEN << U64_group(v, k) >>
    ELSE << U64_group(v, k) + 128 >> \o VInt_serialize_padded(v, k + 1)

\* VInt::serialize of any u64, from its k-th group on: the group, with the
\* high bit set when a higher group is not zero
RECURSIVE VInt_serialize_from(_, _)
VInt_serialize_from(v, k) ==
    IF \A j \in (k + 1)..9 : U64_group(v, j) = 0 THEN << U64_group(v, k) >>
    ELSE << U64_group(v, k) + 128 >> \o VInt_serialize_from(v, k + 1)

VInt_serialize_u64(v) == VInt_serialize_from(v, 0)

\* the byte is a UTF-8 continuation byte (10xxxxxx)
utf8_continuation(c) == c >= 128 /\ c <= 191

\* the length of the UTF-8 sequence that the bytes of b from position i on
\* start with, 0 when they start with none
utf8_char_width(b, i) ==
    LET c == b[i]
        cont(k, lo, hi) == Len(b) >= k /\ b[k] >= lo /\ b[k] <= hi
    IN IF c < 128 THEN 1
       ELSE IF c >= 194 /\ c <= 223
            THEN IF cont(i + 1, 128, 191) THEN 2 ELSE 0
       ELSE IF c >= 224 /\ c <= 239
            THEN IF /\ cont(i + 1, IF c = 224 THEN 160 ELSE 128, IF c = 237 THEN 159 ELSE 191)
                    /\ cont(i + 2, 128, 191)
                 THEN 3 ELSE 0
       ELSE IF c >= 240 /\ c <= 244
            THEN IF /\ cont(i + 1, IF c = 240 THEN 144 ELSE 128, IF c = 244 THEN 143 ELSE 191)
                    /\ cont(i + 2, 128, 191)
                    /\ cont(i + 3, 128, 191)
                 THEN 4 ELSE 0
       ELSE 0

\* str::from_utf8 accepts the bytes: they start with no continuation byte,
\* and every other byte starts a well-formed sequence that ends where the
\* input ends or the next sequence starts
utf8_valid(b) ==
    /\ b # <<>> => ~utf8_continuation(b[1])
    /\ \A i \in 1..Len(b) :
          ~utf8_continuation(b[i]) =>
              LET w == utf8_char_width(b, i)
              IN /\ w > 0
                 /\ (i + w <= Len(b)) => ~utf8_continuation(b[i + w])

\* k times the u64 n: the product on 64 bits and whether it went beyond them
RECURSIVE U64_times(_, _)
U64_times(n, k) ==
    IF k = 0 THEN [val |-> U64_from(0), overflow |-> FALSE]
    ELSE LET half == U64_times(n, k \div 2)
             twice == U64_add(half.val, half.val)
             sum == IF k % 2 = 1 THEN U64_add(twice.val, n)
                    ELSE [val |-> twice.val, overflow |-> FALSE]
         IN [val |-> sum.val,
             overflow |-> half.overflow \/ twice.overflow \/ sum.overflow]

\* String::with_capacity(n) / Vec::<T>::with_capacity(n) panics with "capacity
\* overflow" when n elements of size bytes each are more than isize::MAX bytes
capacity_overflow(n, size) ==
    LET bytes == U64_times(n, size)
    IN bytes.overflow \/ bytes.val[3] >= 128

\* with_capacity aborts the process ("memory allocation of .. bytes failed")
\* when the allocator has no block of n * size bytes; mem is the largest
\* block it can give
allocation_fails(n, size, mem) == ~U64_le(U64_times(n, size).val, mem)

\* <String>::serialize and <Cow<str>>::serialize (a text is held as the
\* UTF-8 bytes it consists of)
String_serialize(v) == VInt_serialize(Len(v)) \o v

\* <String>::deserialize and <Cow<str>>::deserialize: take(string_length)
\* ends at string_length bytes or at the end of the input, whichever comes
\* first, and read_to_string fails on bytes that are not UTF-8
String_deserialize(buf, mem) ==
    LET string_length == VInt_deserialize(buf)
    IN IF ~string_length.ok THEN string_length
       ELSE IF capacity_overflow(string_length.u64, 1) THEN DePanic
       ELSE IF allocation_fails(string_length.u64, 1, mem) THEN [ok |-> FALSE, kind |-> "abort"]
       ELSE LET rest == string_length.rest
                n == IF U64_le(string_length.u64, U64_from(Len(rest)))
                     THEN U64_to_nat(string_length.u64) ELSE Len(rest)
                result == SubSeq(rest, 1, n)
            IN IF utf8_valid(result)
               THEN DeOk(result, SubSeq(rest, n + 1, Len(rest)))
               ELSE DeError("InvalidData")

\* <()>::serialize / deserialize
unit_serialize(v) == <<>>

unit_deserialize(buf) == DeOk(<<>>, buf)

\* the types implementing BinarySerializable, as [k |-> kind, ...]
Ty(k) == [k |-> k]
VecOf(T) == [k |-> "Vec", of |-> T]
PairOf(L, R) == [k |-> "pair", l |-> L, r |-> R]

\* [size |-> size_of::<T>(), align |-> align_of::<T>()] on a 64-bit target: a
\* String, a Vec and a Cow are three words, a pair is its components one
\* after the other, padded to the larger alignment
RECURSIVE size_of(_)
size_of(ty) ==
    CASE ty.k = "unit" -> [size |-> 0, align |-> 1]
      [] ty.k \in {"u8", "bool"} -> [size |-> 1, align |-> 1]
      [] ty.k = "u16" -> [size |-> 2, align |-> 2]
      [] ty.k \in {"u32", "f32"} -> [size |-> 4, align |-> 4]
      [] ty.k \in {"u64", "i64", "f64", "VInt"} -> [size |-> 8, align |-> 8]
      [] ty.k = "u128" -> [size |-> 16, align |-> 16]
      [] ty.k \in {"String", "CowStr", "CowBytes", "Vec"} -> [size |-> 24, align |-> 8]
      [] ty.k = "pair" ->
            LET l == size_of(ty.l)
                r == size_of(ty.r)
                align == IF l.align >= r.align THEN l.align ELSE r.align
                sum == l.size + r.size
            IN [size |-> ((sum + align - 1) \div align) * align, align |-> align]

RECURSIVE serialize(_, _)
RECURSIVE deserialize(_, _, _)

\* <Vec<T>>::serialize
Vec_serialize(T, v) ==
    VInt_serialize(Len(v)) \o Flatten([i \in 1..Len(v) |-> serialize(T, v[i])])

\* n turns of the loop `for _ in 0..num_items` of <Vec<T>>::deserialize,
\* starting from the input buf and the items read so far (the turns are
\* run as a first and a second half)
RECURSIVE deserialize_items(_, _, _, _, _)
deserialize_items(T, buf, n, items, mem) ==
    IF n = 0 THEN DeOk(items, buf)
    ELSE IF n = 1
         THEN LET item == deserialize(T, buf, mem)
              IN IF ~item.ok THEN item ELSE DeOk(Append(items, item.val), item.rest)
    ELSE LET first == deserialize_items(T, buf, n \div 2, items, mem)
         IN IF ~first.ok THEN first
            ELSE deserialize_items(T, first.rest, n - (n \div 2), first.val, mem)

\* <Vec<T>>::deserialize: Vec::with_capacity(num_items) comes before the
\* loop; an item of a type of size 0 is read from no bytes, every other from
\* one byte at least
Vec_deserialize(T, buf, mem) ==
    LET num_items == VInt_deserialize(buf)
    IN IF ~num_items.ok THEN num_items
       ELSE IF capacity_overflow(num_items.u64, size_of(T).size) THEN DePanic
       ELSE IF allocation_fails(num_items.u64, size_of(T).size, mem)
            THEN [ok |-> FALSE, kind |-> "abort"]
       ELSE deserialize_items(T, num_items.rest,
                              IF size_of(T).size = 0 THEN U64_to_nat(num_items.u64)
                              ELSE loop_turns(num_items.u64, num_items.rest),
                              <<>>, mem)

\* <(Left, Right)>::serialize
pair_serialize(L, R, v) == serialize(L, v[1]) \o serialize(R, v[2])

\* a pair whose right component is decoded from the start of the input again
pair_deserialize_right_from_start(L, R, buf, mem) ==
    LET left == deserialize(L, buf, mem)
    IN IF ~left.ok THEN left
       ELSE LET right == deserialize(R, buf, mem)
            IN IF ~right.ok THEN right
               ELSE DeOk(<< left.val, right.val >>, right.rest)

\* <(Left, Right)>::deserialize
pair_deserialize(L, R, buf, mem) ==
    LET left == deserialize(L, buf, mem)
    IN IF ~left.ok THEN left
       ELSE LET right == deserialize(R, left.rest, mem)
            IN IF ~right.ok THEN right
               ELSE DeOk(<< left.val, right.val >>, right.rest)

\* Cow<[u8]> written as its bytes alone, without the length
CowBytes_serialize_no_length(v) == Flatten([i \in 1..Len(v) |-> write_u8(v[i])])

\* <Cow<[u8]>>::serialize
CowBytes_serialize(v) ==
    VInt_serialize(Len(v)) \o Flatten([i \in 1..Len(v) |-> write_u8(v[i])])

\* <Cow<[u8]>>::deserialize
CowBytes_deserialize(buf, mem) ==
    LET num_items == VInt_deserialize(buf)
    IN IF ~num_items.ok THEN num_items
       ELSE IF capacity_overflow(num_items.u64, 1) THEN DePanic
       ELSE IF allocation_fails(num_items.u64, 1, mem) THEN [ok |-> FALSE, kind |-> "abort"]
       ELSE deserialize_items(Ty("u8"), num_items.rest,
                              loop_turns(num_items.u64, num_items.rest), <<>>, mem)

\* <VInt>::deserialize, the value as a u64
VInt_deserialize_u64(buf) ==
    LET v == VInt_deserialize(buf)
    IN IF ~v.ok THEN v ELSE DeOk(v.u64, v.rest)

\* BinarySerializable::serialize of a value v of type ty
serialize(ty, v) ==
    CASE ty.k = "unit" -> unit_serialize(v)
      [] ty.k = "Vec" -> Vec_serialize(ty.of, v)
      [] ty.k = "pair" -> pair_serialize(ty.l, ty.r, v)
      [] ty.k = "u32" -> write_u32(v)
      [] ty.k = "u16" -> write_u16(v)
      [] ty.k = "u64" -> write_u64(v)
      [] ty.k = "u128" -> write_u128(v)
      [] ty.k = "f32" -> write_f32(v)
      [] ty.k = "i64" -> write_i64(v)
      [] ty.k = "f64" -> write_f64(v)
      [] ty.k = "u8" -> write_u8(v)
      [] ty.k = "bool" -> bool_serialize(v)
      [] ty.k = "String" -> String_serialize(v)
      [] ty.k = "CowStr" -> String_serialize(v)
      [] ty.k = "CowBytes" -> CowBytes_serialize(v)
      [] ty.k = "VInt" -> VInt_serialize_u64(v)

\* BinarySerializable::deserialize of a value of type ty from buf, with an
\* allocator whose largest block is mem bytes
deserialize(ty, buf, mem) ==
    CASE ty.k = "unit" -> unit_deserialize(buf)
      [] ty.k = "Vec" -> Vec_deserialize(ty.of, buf, mem)
      [] ty.k = "pair" -> pair_deserialize(ty.l, ty.r, buf, mem)
      [] ty.k = "u32" -> read_u32(buf)
      [] ty.k = "u16" -> read_u16(buf)
      [] ty.k = "u64" -> read_u64(buf)
      [] ty.k = "u128" -> read_u128(buf)
      [] ty.k = "f32" -> read_f32(buf)
      [] ty.k = "i64" -> read_i64(buf)
      [] ty.k = "f64" -> read_f64(buf)
      [] ty.k = "u8" -> read_u8(buf)
      [] ty.k = "bool" -> bool_deserialize(buf)
      [] ty.k = "String" -> String_deserialize(buf, mem)
      [] ty.k = "CowStr" -> String_deserialize(buf, mem)
      [] ty.k = "CowBytes" -> CowBytes_deserialize(buf, mem)
      [] ty.k = "VInt" -> VInt_deserialize_u64(buf)

\* BinarySerializable::num_bytes: the bytes a Counter counts
num_bytes(ty, v) == Len(serialize(ty, v))

\* the types implementing FixedSize
RECURSIVE FixedSize(_)
FixedSize(ty) ==
    \/ ty.k \in {"unit", "u32", "u16", "u64", "u128", "f32", "i64", "f64", "u8", "bool"}
    \/ ty.k = "pair" /\ FixedSize(ty.l) /\ FixedSize(ty.r)

\* SIZE_IN_BYTES with 8 declared for u128
RECURSIVE SIZE_IN_BYTES_u128_as_u64(_)
SIZE_IN_BYTES_u128_as_u64(ty) ==
    CASE ty.k = "unit" -> 0
      [] ty.k = "pair" -> SIZE_IN_BYTES_u128_as_u64(ty.l) + SIZE_IN_BYTES_u128_as_u64(ty.r)
      [] ty.k \in {"u32", "f32"} -> 4
      [] ty.k = "u16" -> 2
      [] ty.k \in {"u64", "i64", "f64", "u128"} -> 8
      [] ty.k \in {"u8", "bool"} -> 1

\* <ty as FixedSize>::SIZE_IN_BYTES
RECURSIVE SIZE_IN_BYTES(_)
SIZE_IN_BYTES(ty) ==
    CASE ty.k = "unit" -> 0
      [] ty.k = "pair" -> SIZE_IN_BYTES(ty.l) + SIZE_IN_BYTES(ty.r)
      [] ty.k \in {"u32", "f32"} -> 4
      [] ty.k = "u16" -> 2
      [] ty.k \in {"u64", "i64", "f64"} -> 8
      [] ty.k = "u128" -> 16
      [] ty.k \in {"u8", "bool"} -> 1

(***************************************************************************)
(* FileAddr                                                                *)
(***************************************************************************)
FileAddr_new(field, idx) == [field |-> field, idx |-> idx]

\* FileAddr::serialize: field, then VInt(idx as u64); idx is a usize, held
\* as a u64
FileAddr_serialize(file_addr) ==
    Field_serialize(file_addr.field) \o VInt_serialize_u64(file_addr.idx)

\* FileAddr::deserialize reading the idx but keeping 0
FileAddr_deserialize_idx_dropped(buf) ==
    LET f == Field_deserialize(buf)
    IN IF ~f.ok THEN DeErr
       ELSE LET i == VInt_deserialize(f.rest)
            IN IF ~i.ok THEN DeErr
               ELSE DeOk(FileAddr_new(f.val, U64_from(0)), i.rest)

\* FileAddr::deserialize
FileAddr_deserialize(buf) ==
    LET f == Field_deserialize(buf)
    IN IF ~f.ok THEN DeErr
       ELSE LET i == VInt_deserialize(f.rest)
            IN IF ~i.ok THEN DeErr
               ELSE DeOk(FileAddr_new(f.val, i.u64), i.rest)

(***************************************************************************)
(* CompositeWrite (w = [write, offsets]; write is what the CountingWriter  *)
(* passed on, written_bytes its length)                                    *)
(***************************************************************************)
\* CompositeWrite::wrap
CompositeWrite_wrap == [write |-> <<>>, offsets |-> <<>>]

\* CountingWriter::written_bytes
written_bytes(w) == Len(w.write)

\* for_field_with_idx without its assert!
for_field_asserts_disabled(w, field, idx) == TRUE

\* the assert! of for_field_with_idx
for_field_asserts(w, field, idx) ==
    ~ \E k \in 1..Len(w.offsets) : w.offsets[k].file_addr = FileAddr_new(field, idx)

\* for_field_with_idx recording offset 0 in place of written_bytes()
for_field_with_idx_offset_zero(w, field, idx) ==
    [w EXCEPT !.offsets =
        Append(w.offsets, [file_addr |-> FileAddr_new(field, idx), offset |-> 0])]

\* CompositeWrite::for_field_with_idx, when its assert holds
for_field_with_idx(w, field, idx) ==
    [w EXCEPT !.offsets =
        Append(w.offsets, [file_addr |-> FileAddr_new(field, idx), offset |-> written_bytes(w)])]

\* CompositeWrite::for_field
for_field(w, field) == for_field_with_idx(w, field, U64_from(0))

\* the loop of close writing VInt(offset) in place of VInt(offset - prev_offset)
RECURSIVE close_entries_absolute(_, _, _)
close_entries_absolute(offsets, k, prev_offset) ==
    IF k > Len(offsets) THEN <<>>
    ELSE VInt_serialize(offsets[k].offset)
            \o FileAddr_serialize(offsets[k].file_addr)
            \o close_entries_absolute(offsets, k + 1, offsets[k].offset)

\* the loop of close over offsets[k..]: VInt(offset - prev_offset), file_addr
RECURSIVE close_entries(_, _, _)
close_entries(offsets, k, prev_offset) ==
    IF k > Len(offsets) THEN <<>>
    ELSE VInt_serialize(offsets[k].offset - prev_offset)
            \o FileAddr_serialize(offsets[k].file_addr)
            \o close_entries(offsets, k + 1, offsets[k].offset)

\* close with the 4 bytes of the footer length counted in the footer length
close_footer_len_counts_itself(w) ==
    LET footer_offset == written_bytes(w)
        with_footer == w.write \o VInt_serialize(Len(w.offsets))
                               \o close_entries(w.offsets, 1, 0)
        footer_len == (Len(with_footer) - footer_offset) + 4
    IN with_footer \o u32_serialize(footer_len)

\* CompositeWrite::close: everything written once close returned Ok
close(w) ==
    LET footer_offset == written_bytes(w)
        with_footer == w.write \o VInt_serialize(Len(w.offsets))
                               \o close_entries(w.offsets, 1, 0)
        footer_len == Len(with_footer) - footer_offset
    IN with_footer \o u32_serialize(footer_len)

(***************************************************************************)
(* CompositeFile                                                           *)
(***************************************************************************)
\* the first loop of open: offsets and file_addrs after num_fields entries, an
\* error when an entry cannot be decoded. `offset += delta` on usize panics on
\* overflow in a build with overflow checks and wraps in one without.
RECURSIVE open_entries(_, _, _, _, _, _)
open_entries(buf, n, offset, offsets, file_addrs, overflow_checks) ==
    IF n = 0 THEN [status |-> "ok", offsets |-> offsets, file_addrs |-> file_addrs]
    ELSE LET d == VInt_deserialize(buf)
         IN IF ~d.ok THEN [status |-> "err"]
            ELSE IF U64_add(offset, d.u64).overflow /\ overflow_checks
            THEN [status |-> "panic"]
            ELSE LET a == FileAddr_deserialize(d.rest)
                 IN IF ~a.ok THEN [status |-> "err"]
                    ELSE open_entries(a.rest, n - 1, U64_add(offset, d.u64).val,
                                      Append(offsets, U64_add(offset, d.u64).val),
                                      Append(file_addrs, a.val),
                                      overflow_checks)

\* the second loop of open: field_index.insert(file_addrs[i], offsets[i]..offsets[i+1])
RECURSIVE open_index(_, _, _)
open_index(file_addrs, offsets, n) ==
    IF n = 0 THEN << >>
    ELSE LET before == open_index(file_addrs, offsets, n - 1)
         IN [a \in (DOMAIN before) \cup {file_addrs[n]} |->
                IF a = file_addrs[n]
                THEN [start |-> offsets[n], end |-> offsets[n + 1]]
                ELSE before[a]]

\* CompositeFile::open, in a build with or without overflow checks.
\* `end - 4` and `end - 4 - footer_len` below zero panic either way: at the
\* subtraction with overflow checks, in the range assertion of FileSlice
\* (on the wrapped value) without.
CompositeFile_open(data, overflow_checks) ==
    LET end == Len(data)
    IN IF end < 4 THEN [status |-> "panic"]
       ELSE LET footer_len == u32_deserialize(SubSeq(data, end - 3, end)).val
            IN IF end - 4 < footer_len THEN [status |-> "panic"]
               ELSE LET footer_start == end - 4 - footer_len
                        footer_data == SubSeq(data, footer_start + 1, footer_start + footer_len)
                        n == VInt_deserialize(footer_data)
                    IN IF ~n.ok THEN [status |-> "err"]
                       ELSE LET num_fields == loop_turns(n.u64, n.rest)
                                e == open_entries(n.rest, num_fields, U64_from(0), <<>>, <<>>,
                                                  overflow_checks)
                            IN IF e.status # "ok" THEN [status |-> e.status]
                               ELSE [status |-> "ok",
                                     data |-> SubSeq(data, 1, footer_start),
                                     offsets_index |->
                                        open_index(e.file_addrs,
                                                   Append(e.offsets, U64_from(footer_start)),
                                                   num_fields)]

\* an empty composite file that still lists the key (field 0, idx 0)
CompositeFile_empty_with_key ==
    [status |-> "ok", data |-> <<>>,
     offsets_index |-> [a \in {FileAddr_new(0, U64_from(0))} |-> [start |-> U64_from(0), end |-> U64_from(0)]]]

\* CompositeFile::empty
CompositeFile_empty == [status |-> "ok", data |-> <<>>, offsets_index |-> << >>]

\* open_read_with_idx looking the field up under idx 0 whatever idx is asked
open_read_with_idx_ignoring_idx(c, field, idx) ==
    LET key == FileAddr_new(field, U64_from(0))
    IN IF key \notin DOMAIN c.offsets_index THEN [some |-> FALSE, panic |-> FALSE]
       ELSE LET r == c.offsets_index[key]
            IN IF U64_le(r.start, r.end) /\ U64_le(r.end, U64_from(Len(c.data)))
               THEN [some |-> TRUE, panic |-> FALSE,
                     bytes |-> SubSeq(c.data, U64_to_nat(r.start) + 1, U64_to_nat(r.end))]
               ELSE [some |-> FALSE, panic |-> TRUE]

\* CompositeFile::open_read_with_idx: None, or Some(self.data.slice(range));
\* FileSlice::slice panics on a range that is not inside the data
open_read_with_idx(c, field, idx) ==
    LET key == FileAddr_new(field, idx)
    IN IF key \notin DOMAIN c.offsets_index THEN [some |-> FALSE, panic |-> FALSE]
       ELSE LET r == c.offsets_index[key]
            IN IF U64_le(r.start, r.end) /\ U64_le(r.end, U64_from(Len(c.data)))
               THEN [some |-> TRUE, panic |-> FALSE,
                     bytes |-> SubSeq(c.data, U64_to_nat(r.start) + 1, U64_to_nat(r.end))]
               ELSE [some |-> FALSE, panic |-> TRUE]

\* CompositeFile::open_read
open_read(c, field) == open_read_with_idx(c, field, U64_from(0))

(***************************************************************************)
(* Composite file: inputs                                                  *)
(***************************************************************************)
Fields == {0, 300}
\* the idx values asked for: 0, 1 and 2^32
Idxs == { U64_from(0), U64_from(1), <<0, 16, 0>> }

\* what one write to the sink carries: one byte, or 130 bytes
Chunks == { <<7>>, [k \in 1..130 |-> (k * 7) % 256] }

(***************************************************************************)
(* Composite file: actions                                                 *)
(***************************************************************************)
\* composite_write.for_field_with_idx(field, idx)
ForFieldWithIdx(field, idx) ==
    /\ cw.state = "open"
    /\ Len(cw.offsets) < MaxSegments
    /\ IF for_field_asserts(cw, field, idx)
       THEN /\ cw' = for_field_with_idx(cw, field, idx)
            /\ sink' = Append(sink, <<>>)
       ELSE /\ cw' = [cw EXCEPT !.state = "panicked"]
            /\ sink' = sink
    /\ UNCHANGED <<file, cf>>
    /\ UNCHANGED <<arenaVars, io, readers, ser, jw>>

\* composite_write.for_field(field)
ForField(field) ==
    /\ cw.state = "open"
    /\ Len(cw.offsets) < MaxSegments
    /\ IF for_field_asserts(cw, field, U64_from(0))
       THEN /\ cw' = for_field(cw, field)
            /\ sink' = Append(sink, <<>>)
       ELSE /\ cw' = [cw EXCEPT !.state = "panicked"]
            /\ sink' = sink
    /\ UNCHANGED <<file, cf>>
    /\ UNCHANGED <<arenaVars, io, readers, ser, jw>>

\* a write of `chunk` to the sink returned by the latest for_field call
SinkWrite(chunk) ==
    /\ cw.state = "open"
    /\ Len(cw.offsets) >= 1
    /\ Len(sink[Len(sink)]) < MaxChunks
    /\ cw' = [cw EXCEPT !.write = cw.write \o chunk]
    /\ sink' = [sink EXCEPT ![Len(sink)] = Append(sink[Len(sink)], chunk)]
    /\ UNCHANGED <<file, cf>>
    /\ UNCHANGED <<arenaVars, io, readers, ser, jw>>

\* composite_write.close(): the footer is written and the file is complete
Close ==
    /\ cw.state = "open"
    /\ file' = close(cw)
    /\ cw' = [cw EXCEPT !.state = "closed"]
    /\ UNCHANGED <<sink, cf>>
    /\ UNCHANGED <<arenaVars, io, readers, ser, jw>>

\* CompositeFile::open(&file)
Open ==
    /\ cw.state = "closed"
    /\ cf.status = "none"
    /\ \E overflow_checks \in BOOLEAN : cf' = CompositeFile_open(file, overflow_checks)
    /\ UNCHANGED <<cw, sink, file>>
    /\ UNCHANGED <<arenaVars, io, readers, ser, jw>>

NextComposite ==
    \/ \E field \in Fields, idx \in Idxs : ForFieldWithIdx(field, idx)
    \/ \E field \in Fields : ForField(field)
    \/ \E chunk \in Chunks : SinkWrite(chunk)
    \/ Close
    \/ Open

(***************************************************************************)
(* Composite file: the bytes found by the reader differ from those written *)
(***************************************************************************)
\* the footer length stored in the last 4 bytes of data (data has them)
stored_footer_len(data) == u32_deserialize(SubSeq(data, Len(data) - 3, Len(data))).val

\* the file was cut short: only its first n bytes are found, fewer than the
\* 4 bytes of the footer length
Truncate(n) ==
    /\ cw.state = "closed"
    /\ cf.status = "none"
    /\ n < Len(file)
    /\ file' = SubSeq(file, 1, n)
    /\ UNCHANGED <<cw, sink, cf>>
    /\ UNCHANGED <<arenaVars, io, readers, ser, jw>>

\* the last 4 bytes of the file read as footer length v, or as v > 0 more
\* than the number of bytes before them
CorruptFooterLen(v, past_end) ==
    /\ cw.state = "closed"
    /\ cf.status = "none"
    /\ Len(file) >= 4
    /\ past_end => v > 0
    /\ LET stored == IF past_end THEN (Len(file) - 4) + v ELSE v
       IN /\ stored # stored_footer_len(file)
          /\ file' = SubSeq(file, 1, Len(file) - 4) \o u32_serialize(stored)
    /\ UNCHANGED <<cw, sink, cf>>
    /\ UNCHANGED <<arenaVars, io, readers, ser, jw>>

\* the first byte of the footer (the segment count, one VInt byte) reads
\* `extra` more than the number of segments written
CorruptNumFields(extra) ==
    /\ cw.state = "closed"
    /\ cf.status = "none"
    /\ Len(file) >= 4
    /\ stored_footer_len(file) >= 1
    /\ stored_footer_len(file) <= Len(file) - 4
    /\ LET at == Len(file) - 4 - stored_footer_len(file) + 1
       IN /\ file[at] # Len(cw.offsets) + extra
          /\ file' = [file EXCEPT ![at] = Len(cw.offsets) + extra]
    /\ UNCHANGED <<cw, sink, cf>>
    /\ UNCHANGED <<arenaVars, io, readers, ser, jw>>

\* the bytes of VInt(2^63): nine bytes with the high bit and no payload, then
\* the byte carrying bit 63
VInt_2_63 == << 128, 128, 128, 128, 128, 128, 128, 128, 128, 1 >>

\* footer entries for offsets[k..] with every delta replaced by `delta`
RECURSIVE entries_with_delta(_, _, _)
entries_with_delta(offsets, k, delta) ==
    IF k > Len(offsets) THEN <<>>
    ELSE delta \o FileAddr_serialize(offsets[k].file_addr)
               \o entries_with_delta(offsets, k + 1, delta)

\* every delta of the footer reads `delta` (an encoded VInt); count, keys and
\* footer length are consistent with the entries
CorruptDeltas(delta) ==
    /\ cw.state = "closed"
    /\ cf.status = "none"
    /\ file = close(cw)
    /\ Len(cw.offsets) >= 1
    /\ LET footer == VInt_serialize(Len(cw.offsets))
                        \o entries_with_delta(cw.offsets, 1, delta)
       IN file' = cw.write \o footer \o u32_serialize(Len(footer))
    /\ UNCHANGED <<cw, sink, cf>>
    /\ UNCHANGED <<arenaVars, io, readers, ser, jw>>

\* every key of the footer reads as the key of the first entry; deltas,
\* count and footer length are left as written
CorruptKeys ==
    /\ cw.state = "closed"
    /\ cf.status = "none"
    /\ file = close(cw)
    /\ Len(cw.offsets) >= 2
    /\ \E k \in 2..Len(cw.offsets) : cw.offsets[k].file_addr # cw.offsets[1].file_addr
    /\ LET same_key == [k \in 1..Len(cw.offsets) |->
                          [cw.offsets[k] EXCEPT !.file_addr = cw.offsets[1].file_addr]]
           footer == VInt_serialize(Len(cw.offsets)) \o close_entries(same_key, 1, 0)
       IN file' = cw.write \o footer \o u32_serialize(Len(footer))
    /\ UNCHANGED <<cw, sink, cf>>
    /\ UNCHANGED <<arenaVars, io, readers, ser, jw>>

NextDamaged ==
    \/ NextComposite
    \/ CorruptKeys
    \/ \E n \in {0, 1, 3} : Truncate(n)
    \/ \E v \in {0, 1, 2 ^ 24}, past_end \in BOOLEAN : CorruptFooterLen(v, past_end)
    \/ \E extra \in {1, 97} : CorruptNumFields(extra)
    \/ \E delta \in {VInt_2_63} : CorruptDeltas(delta)

(***************************************************************************)
(* Composite file: close() on a writer whose calls can fail                *)
(***************************************************************************)
\* the writes the loop of close makes for offsets[k..]: per entry the VInt
\* of the delta, the field and the VInt of the idx, each behind a `?`
RECURSIVE close_entry_writes(_, _, _)
close_entry_writes(offsets, k, prev_offset) ==
    IF k > Len(offsets) THEN <<>>
    ELSE << VInt_serialize(offsets[k].offset - prev_offset),
            Field_serialize(offsets[k].file_addr.field),
            VInt_serialize_u64(offsets[k].file_addr.idx) >>
            \o close_entry_writes(offsets, k + 1, offsets[k].offset)

\* the writes close makes, in order, when each of them returns Ok
close_writes(w) ==
    LET footer == << VInt_serialize(Len(w.offsets)) >> \o close_entry_writes(w.offsets, 1, 0)
        footer_len == Len(Flatten(footer))
    IN Append(footer, u32_serialize(footer_len))

\* close calling terminate() whether or not a write failed
close_io_terminates_anyway(w, fail_at) ==
    LET writes == close_writes(w)
        n == Len(writes)
        failed == fail_at \in 1..n
        done == IF failed THEN fail_at - 1 ELSE n
        log == [k \in 1..done |-> [call |-> "write_all", bytes |-> writes[k], ok |-> TRUE]]
    IN [ok |-> ~failed /\ fail_at # n + 1,
        write |-> w.write \o Flatten(SubSeq(writes, 1, done)),
        io |-> (IF failed
                THEN Append(log, [call |-> "write_all", bytes |-> writes[fail_at], ok |-> FALSE])
                ELSE log)
               \o << [call |-> "terminate", bytes |-> <<>>, ok |-> fail_at # n + 1] >>]

\* CompositeWrite::close on a writer whose fail_at-th call returns an error
\* (fail_at counts the footer writes, then terminate; 0 or a number beyond
\* them: no call fails): the result, what the writer took, and the calls made
close_io(w, fail_at) ==
    LET writes == close_writes(w)
        n == Len(writes)
        failed == fail_at \in 1..n
        done == IF failed THEN fail_at - 1 ELSE n
        log == [k \in 1..done |-> [call |-> "write_all", bytes |-> writes[k], ok |-> TRUE]]
    IN IF failed
       THEN [ok |-> FALSE,
             write |-> w.write \o Flatten(SubSeq(writes, 1, done)),
             io |-> Append(log, [call |-> "write_all", bytes |-> writes[fail_at], ok |-> FALSE])]
       ELSE [ok |-> fail_at # n + 1,
             write |-> w.write \o Flatten(writes),
             io |-> Append(log, [call |-> "terminate", bytes |-> <<>>, ok |-> fail_at # n + 1])]

\* which call of close fails
FailAts == 0..((3 * MaxSegments) + 3)

\* composite_write.close() on a writer whose fail_at-th call fails
CloseIo(fail_at) ==
    /\ cw.state = "open"
    /\ LET r == close_io(cw, fail_at)
       IN /\ io' = r.io
          /\ file' = r.write
          /\ cw' = [cw EXCEPT !.state = IF r.ok THEN "closed" ELSE "failed"]
    /\ UNCHANGED <<sink, cf, readers, ser, jw>>
    /\ UNCHANGED arenaVars

\* one writer whose sink writes are the long chunk, and its close()
NextCloseIo ==
    \/ \E field \in Fields, idx \in Idxs : ForFieldWithIdx(field, idx)
    \/ \E chunk \in Chunks \ { <<7>> } : SinkWrite(chunk)
    \/ \E fail_at \in FailAts : CloseIo(fail_at)

(***************************************************************************)
(* Composite file: reader threads sharing one CompositeFile                *)
(***************************************************************************)
\* the reader threads
Readers == {1, 2}

\* self.offsets_index.remove(&key) in place of get: the entry leaves the map
offsets_index_remove(index, key) ==
    [some |-> key \in DOMAIN index,
     range |-> IF key \in DOMAIN index THEN index[key] ELSE << >>,
     index |-> [a \in (DOMAIN index) \ {key} |-> index[a]]]

\* self.offsets_index.get(&key) on `&self`: the range under key if there is
\* one, and the map as the call leaves it
offsets_index_get(index, key) ==
    [some |-> key \in DOMAIN index,
     range |-> IF key \in DOMAIN index THEN index[key] ELSE << >>,
     index |-> index]

\* .map(|byte_range| self.data.slice(byte_range.clone())) on the looked up
\* range; FileSlice::slice panics on a range that is not inside the data
slice_byte_range(data, found) ==
    IF ~found.some THEN [some |-> FALSE, panic |-> FALSE]
    ELSE LET r == found.range
         IN IF U64_le(r.start, r.end) /\ U64_le(r.end, U64_from(Len(data)))
            THEN [some |-> TRUE, panic |-> FALSE,
                  bytes |-> SubSeq(data, U64_to_nat(r.start) + 1, U64_to_nat(r.end))]
            ELSE [some |-> FALSE, panic |-> TRUE]

\* byte_range.len() of a Range<usize>: 0 when the range is empty
byte_range_len(r) ==
    IF ~U64_le(r.start, r.end) THEN U64_from(0)
    ELSE LET borrow0 == IF r.end[1] < r.start[1] THEN 1 ELSE 0
             borrow1 == IF r.end[2] - borrow0 < r.start[2] THEN 1 ELSE 0
         IN << (r.end[1] - r.start[1]) + (borrow0 * U64_LIMB),
               (r.end[2] - borrow0 - r.start[2]) + (borrow1 * U64_LIMB),
               r.end[3] - borrow1 - r.start[3] >>

\* space_usage reporting for every entry the end of its range as its length
space_usage_counts_from_zero(c) ==
    { [field |-> a.field, idx |-> a.idx, num_bytes |-> c.offsets_index[a].end] :
        a \in DOMAIN c.offsets_index }

\* CompositeFile::space_usage: one FieldUsage per entry of offsets_index,
\* holding the length of its byte range under its idx
space_usage(c) ==
    { [field |-> a.field, idx |-> a.idx, num_bytes |-> byte_range_len(c.offsets_index[a])] :
        a \in DOMAIN c.offsets_index }

\* reader r enters open_read_with_idx(field, idx) and looks the key up
OpenReadWithIdx(r, field, idx) ==
    /\ cf.status = "ok"
    /\ readers[r].pc # "got_range"
    /\ LET g == offsets_index_get(cf.offsets_index, FileAddr_new(field, idx))
       IN /\ cf' = [cf EXCEPT !.offsets_index = g.index]
          /\ readers' = [readers EXCEPT ![r] =
                [pc |-> "got_range", op |-> "open_read_with_idx", field |-> field,
                 idx |-> idx, found |-> [some |-> g.some, range |-> g.range]]]
    /\ UNCHANGED <<cw, sink, file, io, ser, jw>>
    /\ UNCHANGED arenaVars

\* reader r enters open_read(field), which is open_read_with_idx(field, 0)
OpenRead(r, field) ==
    /\ cf.status = "ok"
    /\ readers[r].pc # "got_range"
    /\ LET g == offsets_index_get(cf.offsets_index, FileAddr_new(field, U64_from(0)))
       IN /\ cf' = [cf EXCEPT !.offsets_index = g.index]
          /\ readers' = [readers EXCEPT ![r] =
                [pc |-> "got_range", op |-> "open_read", field |-> field,
                 idx |-> U64_from(0), found |-> [some |-> g.some, range |-> g.range]]]
    /\ UNCHANGED <<cw, sink, file, io, ser, jw>>
    /\ UNCHANGED arenaVars

\* reader r slices the data by the range it looked up and returns
SliceRange(r) ==
    /\ cf.status = "ok"
    /\ readers[r].pc = "got_range"
    /\ readers' = [readers EXCEPT ![r] =
          [pc |-> "done", op |-> readers[r].op, field |-> readers[r].field,
           idx |-> readers[r].idx,
           result |-> slice_byte_range(cf.data, readers[r].found)]]
    /\ UNCHANGED <<cw, sink, file, cf, io, ser, jw>>
    /\ UNCHANGED arenaVars

\* reader r calls space_usage()
SpaceUsage(r) ==
    /\ cf.status = "ok"
    /\ readers[r].pc # "got_range"
    /\ readers' = [readers EXCEPT ![r] =
          [pc |-> "done", op |-> "space_usage", field |-> 0, idx |-> U64_from(0),
           result |-> space_usage(cf)]]
    /\ UNCHANGED <<cw, sink, file, cf, io, ser, jw>>
    /\ UNCHANGED arenaVars

\* one writer whose sink writes are single bytes, then the readers
NextReaders ==
    \/ \E field \in Fields, idx \in Idxs : ForFieldWithIdx(field, idx)
    \/ \E chunk \in { <<7>> } : SinkWrite(chunk)
    \/ Close
    \/ Open
    \/ \E r \in Readers, field \in Fields, idx \in Idxs : OpenReadWithIdx(r, field, idx)
    \/ \E r \in Readers, field \in Fields : OpenRead(r, field)
    \/ \E r \in Readers : SliceRange(r)
    \/ \E r \in Readers : SpaceUsage(r)

(***************************************************************************)
(* Serialization: inputs and actions                                       *)
(***************************************************************************)
\* length of the long text and of the long sequence (its VInt takes 2 bytes)
LongLen == 130

\* "ぽよ" as a String holds it
PoYo == << 227, 129, 189, 227, 130, 136 >>

\* the u64 values whose VInt encodings are drawn, by limbs: around every
\* boundary 2^(7k), up to u64::MAX
VIntValues ==
    LET limbs == { 0, 1, 127, 128, 16383, 16384, (2 ^ 21) - 1, 2 ^ 21, (2 ^ 28) - 1 }
    IN { << a, b, c >> : a \in limbs, b \in limbs, c \in { 0, 1, 127, 128, 255 } }

\* a typed value
Val(ty, x) == [ty |-> ty, x |-> x]

\* the values serialized: per type its default, its extremes and values whose
\* bytes all differ
SerValues ==
    { Val(Ty("u8"), x) : x \in {0, 1, 127, 128, 255} }
    \cup { Val(Ty("u16"), x) : x \in { <<0>>, <<513>>, <<(LIMB - 1)>> } }
    \cup { Val(Ty("u32"), x) : x \in { <<0, 0>>, <<3, 0>>, <<5, 0>>, <<513, 1027>>,
                                       <<(LIMB - 1), (LIMB - 1)>> } }
    \cup { Val(Ty("u64"), x) : x \in { <<0, 0, 0, 0>>, <<513, 1027, 1541, 2055>>,
                                       <<0, 0, 0, 32768>>,
                                       <<(LIMB - 1), (LIMB - 1), (LIMB - 1), (LIMB - 1)>> } }
    \cup { Val(Ty("u128"), x) : x \in { [j \in 1..8 |-> 0], [j \in 1..8 |-> (514 * j) - 1],
                                        [j \in 1..8 |-> (LIMB - 1)] } }
    \cup { Val(Ty("i64"), x) : x \in { [neg |-> FALSE, mag |-> <<0, 0, 0, 0>>],
                                       [neg |-> FALSE, mag |-> <<513, 1027, 1541, 2055>>],
                                       [neg |-> TRUE, mag |-> <<1, 0, 0, 0>>],
                                       [neg |-> TRUE, mag |-> <<513, 1027, 1541, 2055>>],
                                       [neg |-> TRUE, mag |-> <<0, 0, 0, 32768>>],
                                       [neg |-> FALSE, mag |-> <<(LIMB - 1), (LIMB - 1), (LIMB - 1), 32767>>] } }
    \cup { Val(Ty("f32"), x) : x \in { <<0, 0>>, <<0, 16256>>, <<0, 49024>> } }
    \cup { Val(Ty("f64"), x) : x \in { <<0, 0, 0, 0>>, <<0, 0, 0, 16368>>,
                                       <<11544, 21572, 8699, 16393>> } }
    \cup { Val(Ty("bool"), x) : x \in BOOLEAN }
    \cup { Val(Ty("unit"), <<>>) }
    \cup { Val(ty, x) : ty \in { Ty("String"), Ty("CowStr") },
                        x \in { <<>>, <<97>>, PoYo, PoYo \o PoYo, << 240, 159, 166, 128, 33 >>,
                                [k \in 1..LongLen |-> 97 + (k % 26)] } }
    \cup { Val(ty, x) : ty \in { VecOf(Ty("u8")), Ty("CowBytes") },
                        x \in { <<>>, <<0>>, <<1, 200>>, <<255, 128, 0, 7>>,
                                [k \in 1..LongLen |-> (k * 7) % 256] } }
    \cup { Val(VecOf(Ty("u32")), x) : x \in { <<>>, << <<1, 0>>, <<3, 0>> >>,
                                              << <<(LIMB - 1), (LIMB - 1)>>, <<513, 1027>>, <<0, 0>> >> } }
    \cup { Val(VecOf(Ty("bool")), x) : x \in { <<TRUE>>, <<FALSE, TRUE, TRUE>> } }
    \cup { Val(VecOf(Ty("String")), x) : x \in { << <<>>, PoYo, <<97>> >> } }
    \cup { Val(VecOf(VecOf(Ty("u16"))), x) : x \in { << <<>>, << <<513>>, <<0>> >>, <<>> >> } }
    \cup { Val(VecOf(PairOf(Ty("u8"), Ty("String"))), x) :
              x \in { << <<7, PoYo>>, <<0, <<>> >> >> } }
    \cup { Val(PairOf(Ty("u8"), Ty("u32")), x) : x \in { <<0, <<0, 0>> >>, <<255, <<513, 1027>> >> } }
    \cup { Val(PairOf(Ty("unit"), Ty("unit")), << <<>>, <<>> >>) }
    \cup { Val(PairOf(Ty("VInt"), PairOf(Ty("u32"), Ty("VInt"))), << delta, << field, idx >> >>) :
              delta \in { <<0, 0, 0>>, <<130, 0, 0>> },
              field \in { <<0, 0>>, <<300, 0>> },
              idx \in { <<0, 0, 0>>, <<1, 0, 0>>, <<200, 0, 0>> } }
    \cup { Val(PairOf(Ty("bool"), Ty("i64")), x) :
              x \in { <<TRUE, [neg |-> TRUE, mag |-> <<1, 0, 0, 0>>] >> } }
    \cup { Val(PairOf(Ty("u16"), PairOf(Ty("f64"), Ty("u128"))), x) :
              x \in { << <<513>>, << <<0, 0, 0, 16368>>, [j \in 1..8 |-> (514 * j) - 1] >> >> } }
    \cup { Val(PairOf(Ty("String"), VecOf(Ty("u64"))), x) :
              x \in { << PoYo, << <<513, 1027, 1541, 2055>> >> >>, << <<>>, <<>> >> } }
    \cup { Val(Ty("VInt"), x) : x \in VIntValues }

\* bytes that follow the serialized value in the buffer
Tails == { <<>>, << 200, 1 >> }

\* a type and the bytes handed to its deserialize
Inp(ty, bytes) == [ty |-> ty, bytes |-> bytes]

\* the inputs deserialized that no serialize produced alone
SerInputs ==
    { Inp(Ty("bool"), << b >>) : b \in 0..255 }
    \cup { Inp(Ty("bool"), b) : b \in { <<>>, <<1, 9>>, <<2, 1>> } }
    \cup { Inp(ty, b) : ty \in { Ty("String"), Ty("CowStr") },
                        b \in { <<>>, <<0>>, <<0, 97>>, <<5, 97, 98>>, <<2, 97, 98, 99>>,
                                <<1>>, <<1, 255>>, <<2, 227, 129>>, <<2, 227, 129, 189>>,
                                <<3, 227, 129, 189, 7>>, <<2, 192, 128>>, <<3, 237, 160, 128>>,
                                <<4, 244, 144, 128, 128>>, <<6>> \o PoYo \o <<227>>,
                                <<200, 97>>, VInt_2_63 \o <<97>>,
                                <<128, 128, 128, 128, 128, 32, 97>>,
                                <<128, 128, 128, 128, 128, 128, 128, 128, 64, 97>> } }
    \cup { Inp(ty, b) : ty \in { VecOf(Ty("u8")), Ty("CowBytes") },
                        b \in { <<>>, <<2, 1>>, <<2, 1, 2, 3>>, VInt_2_63 \o <<1>>,
                                <<128, 128, 128, 128, 128, 32, 1>>,
                                <<255, 255, 255, 255, 255, 255, 255, 255, 127, 1>> } }
    \cup { Inp(VecOf(Ty("u32")), b) :
              b \in { <<2, 1, 0, 0, 0>>, <<128, 128, 128, 128, 128, 128, 128, 128, 32, 97>>,
                      <<255, 255, 255, 255, 255, 255, 255, 255, 15, 97>> } }
    \cup { Inp(VecOf(Ty("String")), b) :
              b \in { <<128, 128, 128, 128, 128, 128, 128, 128, 8, 97>>,
                      <<128, 128, 128, 128, 128, 128, 128, 128, 4, 97>> } }
    \cup { Inp(VecOf(Ty("bool")), b) : b \in { <<2, 1, 0>>, <<2, 1, 2>> } }
    \cup { Inp(Ty("u32"), b) : b \in { <<1, 2, 3>>, <<1, 2, 3, 4, 5>> } }

\* v.serialize(&mut buffer) into a buffer that goes on with `tail`
SerializeValue(tail) ==
    /\ ser.stage = "value"
    /\ ser' = [stage |-> "serialized", ty |-> ser.ty, x |-> ser.x, tail |-> tail,
               bytes |-> serialize(ser.ty, ser.x) \o tail, mem |-> ser.mem]
    /\ UNCHANGED <<io, readers, jw>>
    /\ UNCHANGED compositeVars
    /\ UNCHANGED arenaVars

\* T::deserialize(&mut cursor) on the bytes serialized, or on the input, in a
\* process whose allocator gives blocks of up to ser.mem bytes
DeserializeBytes ==
    /\ ser.stage \in {"serialized", "input"}
    /\ ser' = [stage |-> "deserialized", from |-> ser.stage, ty |-> ser.ty, x |-> ser.x,
               tail |-> ser.tail, bytes |-> ser.bytes, mem |-> ser.mem,
               de |-> deserialize(ser.ty, ser.bytes, ser.mem)]
    /\ UNCHANGED <<io, readers, jw>>
    /\ UNCHANGED compositeVars
    /\ UNCHANGED arenaVars

NextSerialize ==
    \/ \E tail \in Tails : SerializeValue(tail)
    \/ DeserializeBytes

(***************************************************************************)
(* JsonPathWriter: the flattened path of a JSON value. A String is the     *)
(* sequence of its UTF-8 bytes.                                            *)
(***************************************************************************)
JSON_PATH_SEGMENT_SEP == 1
JSON_END_OF_PATH == 0

\* pushed segments per writer, and end markers per path, at most
MaxDepth == 3
MaxEnds == 1

\* crate::replace_in_place(needle, replacement, bytes)
replace_in_place(needle, replacement, bytes) ==
    [k \in 1..Len(bytes) |-> IF bytes[k] = needle THEN replacement ELSE bytes[k]]

JsonPathWriter_new == [path |-> <<>>, indices |-> <<>>, expand_dots |-> FALSE]

set_expand_dots(w, expand_dots) == [w EXCEPT !.expand_dots = expand_dots]

\* push() that replaces the dots of the whole path, not of what it appended
JsonPathWriter_push_expands_whole_path(w, segment) ==
    LET indices == Append(w.indices, Len(w.path))
        sep == IF Len(indices) > 1 THEN << JSON_PATH_SEGMENT_SEP >> ELSE <<>>
        path == w.path \o sep \o segment
    IN [w EXCEPT !.indices = indices,
                 !.path = IF w.expand_dots
                          THEN replace_in_place(46, JSON_PATH_SEGMENT_SEP, path)
                          ELSE path]

\* push() that puts the separator before the first segment too
JsonPathWriter_push_leading_separator(w, segment) ==
    [w EXCEPT !.indices = Append(w.indices, Len(w.path)),
              !.path = w.path \o << JSON_PATH_SEGMENT_SEP >> \o segment]

\* b'.' is 46
JsonPathWriter_push(w, segment) ==
    LET len_path == Len(w.path)
        indices == Append(w.indices, len_path)
        sep == IF Len(indices) > 1 THEN << JSON_PATH_SEGMENT_SEP >> ELSE <<>>
        path == w.path \o sep \o segment
        appended_segment == SubSeq(path, len_path + 1, Len(path))
    IN [w EXCEPT !.indices = indices,
                 !.path = IF w.expand_dots
                          THEN SubSeq(path, 1, len_path)
                               \o replace_in_place(46, JSON_PATH_SEGMENT_SEP, appended_segment)
                          ELSE path]

set_end(w) == [w EXCEPT !.path = w.path \o << JSON_END_OF_PATH >>]

\* pop() that forgets the index and leaves the path as it is
JsonPathWriter_pop_keeps_path(w) ==
    [w EXCEPT !.indices = SubSeq(w.indices, 1, Len(w.indices) - 1)]

\* String::truncate(last_idx) keeps the path when last_idx is past its end;
\* last_idx is a length the path had, so it is a char boundary
JsonPathWriter_pop(w) ==
    IF w.indices = <<>>
    THEN w
    ELSE LET last_idx == w.indices[Len(w.indices)]
         IN [w EXCEPT !.indices = SubSeq(w.indices, 1, Len(w.indices) - 1),
                      !.path = IF last_idx <= Len(w.path)
                               THEN SubSeq(w.path, 1, last_idx)
                               ELSE w.path]

JsonPathWriter_clear(w) == [w EXCEPT !.path = <<>>, !.indices = <<>>]

as_str(w) == w.path

\* JsonPathWriter::new(); segs are the segments pushed and not popped, before
\* is as_str() as it was before each of them was pushed
JsonPathWriter_init ==
    [w |-> JsonPathWriter_new, segs |-> <<>>, before |-> <<>>, op |-> "new"]

\* the segments pushed: "", "a", "b.c", ".", ".d." and "ぽ"
Segments == { <<>>, <<97>>, <<98, 46, 99>>, <<46>>, <<46, 100, 46>>, <<227, 129, 189>> }

Push(segment) ==
    /\ Len(jw.w.indices) < MaxDepth
    /\ jw' = [w |-> JsonPathWriter_push(jw.w, segment),
              segs |-> Append(jw.segs, segment),
              before |-> Append(jw.before, as_str(jw.w)),
              op |-> "push"]
    /\ UNCHANGED <<arenaVars, compositeVars, io, readers, ser>>

Pop ==
    /\ jw' = [w |-> JsonPathWriter_pop(jw.w),
              segs |-> SubSeq(jw.segs, 1, Len(jw.segs) - 1),
              before |-> SubSeq(jw.before, 1, Len(jw.before) - 1),
              op |-> "pop"]
    /\ UNCHANGED <<arenaVars, compositeVars, io, readers, ser>>

Clear ==
    /\ jw' = [w |-> JsonPathWriter_clear(jw.w), segs |-> <<>>, before |-> <<>>,
              op |-> "clear"]
    /\ UNCHANGED <<arenaVars, compositeVars, io, readers, ser>>

SetEnd ==
    /\ Cardinality({ k \in 1..Len(jw.w.path) : jw.w.path[k] = JSON_END_OF_PATH }) < MaxEnds
    /\ jw' = [jw EXCEPT !.w = set_end(jw.w), !.op = "set_end"]
    /\ UNCHANGED <<arenaVars, compositeVars, io, readers, ser>>

SetExpandDots(expand_dots) ==
    /\ jw' = [jw EXCEPT !.w = set_expand_dots(jw.w, expand_dots), !.op = "set_expand_dots"]
    /\ UNCHANGED <<arenaVars, compositeVars, io, readers, ser>>

NextJsonPath ==
    \/ \E segment \in Segments : Push(segment)
    \/ Pop
    \/ Clear
    \/ SetEnd
    \/ \E expand_dots \in BOOLEAN : SetExpandDots(expand_dots)

\* a writer from new(): expand_dots stays disabled, set_end() is not called
NextJsonPlain ==
    \/ \E segment \in Segments : Push(segment)
    \/ Pop
    \/ Clear

(***************************************************************************)
(* Specifications                                                          *)
(***************************************************************************)
\* after construction: MemoryArena::default() and CompositeWrite::wrap(w)
Init ==
    /\ pages = MemoryArena_default
    /\ status = "ok"
    /\ allocs = <<>>
    /\ ret = Ret("default", "ok", 0, NoAddr, 0, <<>>)
    /\ nwrites = 0
    /\ cw = [write |-> CompositeWrite_wrap.write, offsets |-> CompositeWrite_wrap.offsets,
             state |-> "open"]
    /\ sink = <<>>
    /\ file = <<>>
    /\ cf = [status |-> "none"]
    /\ io = <<>>
    /\ readers = [r \in Readers |-> [pc |-> "idle"]]
    /\ ser = [stage |-> "none"]
    /\ jw = JsonPathWriter_init

\* the arena after PrefilledPages calls of allocate_space(PAGE_SIZE) on a
\* default arena: that many full pages, never written
InitFull ==
    /\ pages = [k \in 1..PrefilledPages |->
                    [page_id |-> k - 1, len |-> PAGE_SIZE, data |-> RFill(PAGE_SIZE, 0)]]
    /\ status = "ok"
    /\ allocs = <<>>
    /\ ret = Ret("default", "ok", 0, NoAddr, 0, <<>>)
    /\ nwrites = 0
    /\ cw = [write |-> CompositeWrite_wrap.write, offsets |-> CompositeWrite_wrap.offsets,
             state |-> "open"]
    /\ sink = <<>>
    /\ file = <<>>
    /\ cf = [status |-> "none"]
    /\ io = <<>>
    /\ readers = [r \in Readers |-> [pc |-> "idle"]]
    /\ ser = [stage |-> "none"]
    /\ jw = JsonPathWriter_init

\* a value to serialize, or bytes to deserialize, and the largest block the
\* allocator gives: 2^33 or 2^47 bytes; the arena and the composite writer as
\* constructed
InitSerialize ==
    /\ pages = MemoryArena_default
    /\ status = "ok"
    /\ allocs = <<>>
    /\ ret = Ret("default", "ok", 0, NoAddr, 0, <<>>)
    /\ nwrites = 0
    /\ cw = [write |-> CompositeWrite_wrap.write, offsets |-> CompositeWrite_wrap.offsets,
             state |-> "open"]
    /\ sink = <<>>
    /\ file = <<>>
    /\ cf = [status |-> "none"]
    /\ io = <<>>
    /\ readers = [r \in Readers |-> [pc |-> "idle"]]
    /\ \E mem \in { <<0, 32, 0>>, <<0, 2 ^ 19, 0>> } :
          ser \in { [stage |-> "value", ty |-> v.ty, x |-> v.x, mem |-> mem] : v \in SerValues }
                  \cup { [stage |-> "input", ty |-> i.ty, x |-> <<>>, tail |-> <<>>,
                          bytes |-> i.bytes, mem |-> mem] : i \in SerInputs }
    /\ jw = JsonPathWriter_init

Next == NextArena \/ NextComposite

\* both components side by side
Spec == Init /\ [][Next]_vars

\* a fresh arena under allocate_space / write_at / read
SpecArena == Init /\ [][NextArena]_vars

\* allocate_space on an arena that already holds PrefilledPages full pages
NextArenaFull == \E l \in AllocLens : AllocateSpace(l)

SpecArenaFull == InitFull /\ [][NextArenaFull]_vars

\* one writer, then one reader of the file it produced
SpecComposite == Init /\ [][NextComposite]_vars

\* one writer, then a reader of the file after it was cut short or had its
\* footer length or segment count overwritten
SpecDamaged == Init /\ [][NextDamaged]_vars

\* one writer, then reader threads looking up the file it produced
SpecReaders == Init /\ [][NextReaders]_vars

\* one writer whose close() runs into an I/O error, or into none
SpecCloseIo == Init /\ [][NextCloseIo]_vars

\* serialize and deserialize applied to the values and inputs drawn
SpecSerialize == InitSerialize /\ [][NextSerialize]_vars

\* one JsonPathWriter under push, pop, clear, set_end and set_expand_dots
SpecJsonPath == Init /\ [][NextJsonPath]_vars

\* one JsonPathWriter under push, pop and clear alone
SpecJsonPlain == Init /\ [][NextJsonPlain]_vars

(***************************************************************************)
(* Properties                                                              *)
(***************************************************************************)
RECURSIVE SumCursors(_)
SumCursors(ps) == IF ps = <<>> THEN 0 ELSE Head(ps).len + SumCursors(Tail(ps))

RECURSIVE TotalRequested(_)
TotalRequested(as) == IF as = <<>> THEN 0 ELSE Head(as).len + TotalRequested(Tail(as))

\* C1: composite file round trip. Whatever distinct keys were opened, in
\* whatever order, and whatever was written to each sink, open succeeds on
\* the closed file and open_read_with_idx returns for every key exactly the
\* bytes written for it.
C1_RoundTrip ==
    cf.status # "none" =>
        /\ cf.status = "ok"
        /\ \A k \in 1..Len(cw.offsets) :
              LET a == cw.offsets[k].file_addr
                  r == open_read_with_idx(cf, a.field, a.idx)
              IN r.some /\ r.bytes = Flatten(sink[k])

\* C1 witness: a file of three segments, keys not in sorted order, an empty
\* segment and a segment of more than 127 bytes followed by another one, reopened.
C1_Witness ==
    /\ cf.status = "ok"
    /\ Len(cw.offsets) >= 3
    /\ cw.offsets[1].file_addr.field > cw.offsets[2].file_addr.field
    /\ Flatten(sink[1]) = <<>>
    /\ Len(Flatten(sink[2])) > 127
    /\ Len(Flatten(sink[3])) = 1
    /\ open_read_with_idx(cf, cw.offsets[3].file_addr.field, cw.offsets[3].file_addr.idx).bytes
          = <<7>>

\* C2: arena write/read round trip. A read at an allocated address returns the
\* value last written there (of a size within the allocation), whatever other
\* allocations and writes happened in between.
C2_WriteReadRoundTrip ==
    ret.op = "read" => (ret.outcome = "ok" /\ ret.value = allocs[ret.i].val)

\* C3: the null address is never produced by an allocation.
C3_NeverNull ==
    \A k \in 1..Len(allocs) : ~is_null(allocs[k].addr)

\* C4: an oversized request gets a brand-new page of its own whose buffer is
\* at least as long as the request.
C4_OversizedBacked ==
    (ret.op = "allocate_space" /\ ret.len > PAGE_SIZE) =>
        /\ ret.outcome = "ok"
        /\ Len(pages) = allocs[ret.i].npages + 1
        /\ Addr_page_id(ret.addr) = pages[Len(pages)].page_id
        /\ Addr_page_local_addr(ret.addr) = 0
        /\ RLen(pages[Len(pages)].data) >= ret.len

\* C5: allocating more than one page at a time panics.
C5_OversizedPanics ==
    (ret.op = "allocate_space" /\ ret.len > PAGE_SIZE) => ret.outcome = "panic"

\* C6: two allocations made back to back, of n then m bytes with n + m within
\* the space left in the current page, are on the same page and adjacent.
C6_BackToBackAdjacent ==
    \A k \in 2..Len(allocs) :
        (/\ allocs[k].back_to_back
         /\ allocs[k - 1].cursor + allocs[k - 1].len + allocs[k].len <= PAGE_SIZE)
        => /\ Addr_page_id(allocs[k].addr) = Addr_page_id(allocs[k - 1].addr)
           /\ allocs[k].addr = Addr_offset(allocs[k - 1].addr, allocs[k - 1].len)

\* an allocate_space step whose request does not fit in the last page
C7_DoesNotFit ==
    ret'.op = "allocate_space" /\ pages[Len(pages)].len + ret'.len > PAGE_SIZE

\* a fresh page was started: appended with the next id, the address is its
\* start, its cursor is the request, every earlier page is as before
C7_FreshPage ==
    /\ ret'.outcome = "ok"
    /\ Len(pages') = Len(pages) + 1
    /\ pages'[Len(pages')].page_id = Len(pages)
    /\ Addr_page_id(ret'.addr) = Len(pages)
    /\ Addr_page_local_addr(ret'.addr) = 0
    /\ pages'[Len(pages')].len = ret'.len
    /\ SubSeq(pages', 1, Len(pages)) = pages

\* C7 (as stated): an allocation that does not fit in the last page always
\* starts a fresh page.
C7_AlwaysFreshPage == [][C7_DoesNotFit => C7_FreshPage]_vars

\* C7 (amended): an allocation that does not fit in the last page starts a
\* fresh page when the arena holds fewer than 4096 pages; when it already
\* holds 4096, the call panics and the pages are left as they were.
C7_FreshPageOrCapacity ==
    [][C7_DoesNotFit =>
          IF Len(pages) < MAX_PAGES
          THEN C7_FreshPage
          ELSE ret'.outcome = "panic" /\ pages' = pages]_vars

\* C7 witness: a request that did not fit started the last page the arena can
\* hold.
C7_Witness ==
    /\ ret.op = "allocate_space"
    /\ ret.outcome = "ok"
    /\ allocs[ret.i].cursor + ret.len > PAGE_SIZE
    /\ Len(pages) = allocs[ret.i].npages + 1
    /\ Addr_page_id(ret.addr) = MAX_PAGES - 1
    /\ pages[Len(pages)].len = ret.len

\* C8: len() is the sum of the cursors of all pages.
C8_LenIsSumOfCursors ==
    MemoryArena_len(pages) = SumCursors(pages)

\* C9: on a fresh arena, len() equals the total of the requested bytes exactly
\* when no single allocation exceeded the page size.
C9_LenEqualsTotalIffNoOversized ==
    (MemoryArena_len(pages) = TotalRequested(allocs))
        <=> (\A k \in 1..Len(allocs) : allocs[k].len <= PAGE_SIZE)

\* C10: mem_usage() is the page count times 1 MiB and bounds len() from above.
C10_MemUsageUpperBound ==
    /\ MemoryArena_mem_usage(pages) = Len(pages) * (2 ^ 20)
    /\ MemoryArena_len(pages) <= MemoryArena_mem_usage(pages)

\* every page sits at the index of its id, and ids stay below 4096
C11_PagesWithinCapacity ==
    /\ Len(pages) <= MAX_PAGES
    /\ \A k \in 1..Len(pages) : pages[k].page_id = k - 1 /\ pages[k].page_id < 2 ^ 12

\* an allocate_space step that would need the page with id 4096
C11_NeedsPage4096 ==
    /\ ret'.op = "allocate_space"
    /\ Len(pages) = MAX_PAGES
    /\ pages[Len(pages)].len + ret'.len > PAGE_SIZE

\* C11: page capacity. The arena holds pages 0..4095 and no more; the
\* allocation that would need page 4096 is a fatal assertion failure that
\* returns no address and adds no page, it is the only way allocate_space
\* fails, and every address handed out carries a page id of at most 12 bits.
C11_PageCapacity ==
    /\ [](/\ C11_PagesWithinCapacity
          /\ \A k \in 1..Len(allocs) : Addr_page_id(allocs[k].addr) < 2 ^ 12
          /\ status = "panicked" =>
                (ret.outcome = "panic" /\ Len(pages) = MAX_PAGES
                    /\ pages[Len(pages)].len + ret.len > PAGE_SIZE))
    /\ [][C11_NeedsPage4096 =>
            (/\ ret'.outcome = "panic"
             /\ status' = "panicked"
             /\ allocs' = allocs
             /\ pages' = pages)]_vars

\* C11 witness: the arena holds pages 0..4095, the last one handed out by an
\* allocation, and the next allocation that needed a page has panicked.
C11_Witness ==
    /\ status = "panicked"
    /\ Len(pages) = MAX_PAGES
    /\ pages[MAX_PAGES].page_id = MAX_PAGES - 1
    /\ \E k \in 1..Len(allocs) : Addr_page_id(allocs[k].addr) = MAX_PAGES - 1

\* no key is recorded twice by the writer
C12_KeysDistinct ==
    \A j, k \in 1..Len(cw.offsets) :
        cw.offsets[j].file_addr = cw.offsets[k].file_addr => j = k

\* C12: each (field, idx) key can be opened at most once per writer. A
\* for_field / for_field_with_idx call with a key already opened is a fatal
\* assertion failure that records no segment and writes nothing; a call with
\* a key not used so far succeeds, whatever keys were opened before it, and
\* records the key with the number of bytes written so far.
C12_KeyOpenedAtMostOnce ==
    /\ [](C12_KeysDistinct /\ Len(sink) = Len(cw.offsets))
    /\ [][\A field \in Fields, idx \in Idxs :
            (ForFieldWithIdx(field, idx) \/ (idx = U64_from(0) /\ ForField(field))) =>
                IF \E k \in 1..Len(cw.offsets) :
                        cw.offsets[k].file_addr = FileAddr_new(field, idx)
                THEN /\ cw'.state = "panicked"
                     /\ cw'.offsets = cw.offsets
                     /\ cw'.write = cw.write
                     /\ sink' = sink
                ELSE /\ cw'.state = "open"
                     /\ cw'.write = cw.write
                     /\ cw'.offsets = Append(cw.offsets,
                            [file_addr |-> FileAddr_new(field, idx),
                             offset |-> Len(cw.write)])]_vars

\* C12 witness: two keys were opened, not in sorted order, and a further call
\* repeated one of them.
C12_Witness ==
    /\ cw.state = "panicked"
    /\ Len(cw.offsets) = 2
    /\ cw.offsets[1].file_addr.field > cw.offsets[2].file_addr.field
    /\ Len(cw.write) > 0

\* the keys the writer opened
C13_OpenedKeys == { cw.offsets[k].file_addr : k \in 1..Len(cw.offsets) }

\* C13: a missing key is absent, not an error. On a composite file produced
\* by the writer, open_read_with_idx(field, idx) returns a view exactly for
\* the keys the writer opened and returns None, without panic, for every
\* other key (keys the writer could never have used included); open_read(field)
\* is the lookup of (field, 0).
C13_MissingKeyIsAbsent ==
    cf.status # "none" =>
        /\ cf.status = "ok"
        /\ \A field \in Fields \cup {4}, idx \in Idxs \cup { U64_from(2) } :
              LET r == open_read_with_idx(cf, field, idx)
              IN /\ ~r.panic
                 /\ r.some <=> (FileAddr_new(field, idx) \in C13_OpenedKeys)
        /\ \A field \in Fields \cup {4} :
              /\ ~open_read(cf, field).panic
              /\ open_read(cf, field).some <=> (FileAddr_new(field, U64_from(0)) \in C13_OpenedKeys)
              /\ open_read(cf, field) = open_read_with_idx(cf, field, U64_from(0))

\* C13 witness: a reopened file in which a field has idx 1 but not idx 0, so
\* that open_read of that field is absent while another key is present.
C13_Witness ==
    /\ cf.status = "ok"
    /\ FileAddr_new(300, U64_from(1)) \in C13_OpenedKeys
    /\ FileAddr_new(300, U64_from(0)) \notin C13_OpenedKeys
    /\ ~open_read(cf, 300).some
    /\ open_read_with_idx(cf, 300, U64_from(1)).some
    /\ Len(cw.offsets) = 3

\* C14: sub-indices of one field stay distinct. When one field was written
\* under two idx values, both keys are addressable after reopening and each
\* returns its own bytes; a segment to which nothing was written is present
\* with a zero-length view, although the segment opened after it starts at
\* the same offset.
C14_SubIndicesDistinct ==
    cf.status # "none" =>
        /\ cf.status = "ok"
        /\ \A j, k \in 1..Len(cw.offsets) :
              (/\ j # k
               /\ cw.offsets[j].file_addr.field = cw.offsets[k].file_addr.field)
              => LET a == cw.offsets[j].file_addr
                     b == cw.offsets[k].file_addr
                 IN /\ a.idx # b.idx
                    /\ open_read_with_idx(cf, a.field, a.idx).some
                    /\ open_read_with_idx(cf, b.field, b.idx).some
                    /\ open_read_with_idx(cf, a.field, a.idx).bytes = Flatten(sink[j])
                    /\ open_read_with_idx(cf, b.field, b.idx).bytes = Flatten(sink[k])
        /\ \A k \in 1..Len(cw.offsets) :
              Flatten(sink[k]) = <<>> =>
                 LET a == cw.offsets[k].file_addr
                     r == open_read_with_idx(cf, a.field, a.idx)
                 IN /\ r.some
                    /\ ~r.panic
                    /\ r.bytes = <<>>
                    /\ k < Len(cw.offsets) =>
                          /\ cw.offsets[k + 1].offset = cw.offsets[k].offset
                          /\ cf.offsets_index[cw.offsets[k + 1].file_addr].start
                                = cf.offsets_index[a].start

\* C14 witness: field 300 written under idx 0 (non-empty) and then idx 1
\* (empty), followed by a non-empty segment of field 0, and reopened.
C14_Witness ==
    /\ cf.status = "ok"
    /\ Len(cw.offsets) = 3
    /\ cw.offsets[1].file_addr = FileAddr_new(300, U64_from(0))
    /\ cw.offsets[2].file_addr = FileAddr_new(300, U64_from(1))
    /\ cw.offsets[3].file_addr = FileAddr_new(0, U64_from(0))
    /\ Len(Flatten(sink[1])) > 0
    /\ Flatten(sink[2]) = <<>>
    /\ Len(Flatten(sink[3])) > 0
    /\ open_read_with_idx(cf, 300, U64_from(1)).some
    /\ open_read_with_idx(cf, 300, U64_from(1)).bytes = <<>>
    /\ open_read_with_idx(cf, 300, U64_from(0)).bytes = Flatten(sink[1])

\* the footer length in the last 4 bytes points outside the data, or the data
\* is too short to hold it
C15_FooterTrailsOff ==
    \/ Len(file) < 4
    \/ stored_footer_len(file) > Len(file) - 4

\* C15: CompositeFile::open fails with an error, and does not panic, on every
\* input shorter than 4 bytes and on every input whose trailing footer length
\* is larger than the number of bytes before those 4 bytes.
C15_FooterOffEndIsError ==
    (cf.status # "none" /\ C15_FooterTrailsOff) => cf.status = "err"

\* how many (delta, FileAddr) entries can be decoded from buf one after another
RECURSIVE EntriesHeld(_)
EntriesHeld(buf) ==
    LET d == VInt_deserialize(buf)
        a == IF d.ok THEN FileAddr_deserialize(d.rest) ELSE DeErr
    IN IF ~d.ok \/ ~a.ok THEN 0 ELSE 1 + EntriesHeld(a.rest)

\* the footer bytes of a file whose footer length lies inside the data
FooterData ==
    SubSeq(file, Len(file) - 4 - stored_footer_len(file) + 1, Len(file) - 4)

\* the footer lies inside the data and its segment count exceeds the entries
\* that follow the count
C16_CountExceedsEntries ==
    /\ ~C15_FooterTrailsOff
    /\ VInt_deserialize(FooterData).ok
    /\ ~U64_le(VInt_deserialize(FooterData).u64,
               U64_from(EntriesHeld(VInt_deserialize(FooterData).rest)))

\* C16: CompositeFile::open rejects with an error, without panicking, every
\* file whose footer segment count is larger than the number of (delta,
\* FileAddr) entries that the footer bytes hold.
C16_CountBeyondFooterIsError ==
    (cf.status # "none" /\ C16_CountExceedsEntries) => cf.status = "err"

\* all payload bytes in the order they were written to the sinks
RECURSIVE C17_Payload(_)
C17_Payload(sinks) ==
    IF sinks = <<>> THEN <<>> ELSE Flatten(Head(sinks)) \o C17_Payload(Tail(sinks))

\* C17: after close(), the output is the payload, then the footer, then the
\* footer length in the last 4 bytes (fixed width, little endian); the stored
\* value is the number of bytes between the last payload byte and those 4
\* bytes, which is the VInt segment count plus all per-segment entries.
C17_FooterLenIsLast ==
    cw.state = "closed" =>
        LET payload == C17_Payload(sink)
            tail == SubSeq(file, Len(file) - 3, Len(file))
            stored == tail[1] + (256 * tail[2]) + (65536 * tail[3]) + (16777216 * tail[4])
        IN /\ Len(file) >= Len(payload) + 4
           /\ SubSeq(file, 1, Len(payload)) = payload
           /\ stored = Len(file) - 4 - Len(payload)
           /\ stored >= 1
           /\ EntriesHeld(SubSeq(file, Len(payload) + 2, Len(file) - 4)) = Len(cw.offsets)
           /\ file[Len(payload) + 1] = Len(cw.offsets)

\* C17 witness: a closed file with three segments and more than 127 payload
\* bytes, whose footer is longer than its segment count.
C17_Witness ==
    /\ cw.state = "closed"
    /\ Len(cw.offsets) = 3
    /\ Len(C17_Payload(sink)) > 127
    /\ Len(file) - 4 - Len(C17_Payload(sink)) > 10
    /\ cf.status = "none"

\* the first n (delta, FileAddr) entries as they stand in buf, deltas not summed
RECURSIVE C18_RawEntries(_, _)
C18_RawEntries(buf, n) ==
    IF n = 0 THEN <<>>
    ELSE LET d == VInt_deserialize(buf)
             a == IF d.ok THEN FileAddr_deserialize(d.rest) ELSE DeErr
         IN IF ~d.ok \/ ~a.ok THEN <<>>
            ELSE <<[delta |-> d.u64, file_addr |-> a.val]>>
                    \o C18_RawEntries(a.rest, n - 1)

\* the number of payload bytes written before the k-th key was opened
C18_StartOf(k) == Len(C17_Payload(SubSeq(sink, 1, k - 1)))

\* C18: footer entries follow write order. The writer records for every key,
\* in the order the keys were opened, the number of bytes written before it,
\* so the recorded offsets never decrease; close() emits one entry per key in
\* that order (not sorted by key), the first carrying its start offset and
\* every other the difference to the start offset of the entry before it.
C18_FooterInWriteOrder ==
    /\ \A k \in 1..Len(cw.offsets) : cw.offsets[k].offset = C18_StartOf(k)
    /\ \A k \in 2..Len(cw.offsets) : cw.offsets[k - 1].offset <= cw.offsets[k].offset
    /\ cw.state = "closed" =>
          LET n == Len(cw.offsets)
              entries == C18_RawEntries(
                            SubSeq(file, Len(C17_Payload(sink)) + 2, Len(file) - 4), n)
          IN /\ Len(entries) = n
             /\ \A k \in 1..n :
                   /\ entries[k].file_addr = cw.offsets[k].file_addr
                   /\ k > 1 => C18_StartOf(k) >= C18_StartOf(k - 1)
                   /\ entries[k].delta =
                         U64_from(IF k = 1 THEN C18_StartOf(1)
                                  ELSE C18_StartOf(k) - C18_StartOf(k - 1))

\* C18 witness: a closed file whose keys were opened in descending order, with
\* a payload before the second key and none before the third.
C18_Witness ==
    /\ cw.state = "closed"
    /\ Len(cw.offsets) = 3
    /\ cw.offsets[1].file_addr = FileAddr_new(300, U64_from(1))
    /\ cw.offsets[2].file_addr = FileAddr_new(300, U64_from(0))
    /\ cw.offsets[3].file_addr = FileAddr_new(0, U64_from(0))
    /\ cw.offsets[2].offset = 130
    /\ cw.offsets[3].offset = 130
    /\ C18_RawEntries(SubSeq(file, Len(C17_Payload(sink)) + 2, Len(file) - 4), 3)[2].delta = U64_from(130)

\* s_i: the sum of the deltas of the first i entries, as its 64 low bits and
\* whether it went beyond them
RECURSIVE C19_SumOfDeltas(_, _)
C19_SumOfDeltas(entries, i) ==
    IF i = 0 THEN [val |-> U64_from(0), overflow |-> FALSE]
    ELSE LET before == C19_SumOfDeltas(entries, i - 1)
             sum == U64_add(before.val, entries[i].delta)
         IN [val |-> sum.val, overflow |-> before.overflow \/ sum.overflow]

\* C19: directory reconstruction. Whenever open succeeds, on a file as the
\* writer left it or on one whose footer was overwritten, the directory has
\* exactly the keys of the n footer entries; the key of entry i maps to
\* [s_i, s_(i+1)) with s_i the sum of the deltas of the entries up to i (a
\* sum, not its 64 low bits), the key of the last entry maps to
\* [s_n, footer_start), and the data region ends at footer_start = data
\* length - 4 - footer length.
C19_DirectoryReconstruction ==
    cf.status = "ok" =>
        LET footer_start == Len(file) - 4 - stored_footer_len(file)
            count == VInt_deserialize(FooterData)
            n == loop_turns(count.u64, count.rest)
            entries == C18_RawEntries(count.rest, n)
        IN /\ U64_from(Len(entries)) = count.u64
           /\ Len(entries) = n
           /\ DOMAIN cf.offsets_index = { entries[i].file_addr : i \in 1..n }
           /\ \A i \in 1..n :
                 /\ ~C19_SumOfDeltas(entries, IF i < n THEN i + 1 ELSE i).overflow
                 /\ cf.offsets_index[entries[i].file_addr] =
                       [start |-> C19_SumOfDeltas(entries, i).val,
                        end |-> IF i < n THEN C19_SumOfDeltas(entries, i + 1).val
                                         ELSE U64_from(footer_start)]
           /\ Len(cf.data) = footer_start

\* C20: CompositeFile::empty() is a valid composite file without segments:
\* open_read and open_read_with_idx return None, without panic, for every
\* key; and a writer closed without opening any key produces a file that
\* opens successfully with the same empty directory and empty data.
C20_EmptyIsValid ==
    /\ \A field \in Fields \cup {4}, idx \in Idxs \cup { U64_from(2) } :
          /\ ~open_read_with_idx(CompositeFile_empty, field, idx).some
          /\ ~open_read_with_idx(CompositeFile_empty, field, idx).panic
          /\ ~open_read(CompositeFile_empty, field).some
          /\ ~open_read(CompositeFile_empty, field).panic
    /\ (cf.status # "none" /\ Len(cw.offsets) = 0) =>
          /\ cf.status = "ok"
          /\ cf.offsets_index = CompositeFile_empty.offsets_index
          /\ cf.data = CompositeFile_empty.data
          /\ cf = CompositeFile_empty
          /\ \A field \in Fields \cup {4}, idx \in Idxs \cup { U64_from(2) } :
                open_read_with_idx(cf, field, idx)
                    = open_read_with_idx(CompositeFile_empty, field, idx)

\* C20 witness: a writer was closed with no key opened; its file is the
\* footer alone (count 0, footer length 1) and has been opened.
C20_Witness ==
    /\ cf.status = "ok"
    /\ Len(cw.offsets) = 0
    /\ cw.state = "closed"
    /\ file = << 0, 1, 0, 0, 0 >>
    /\ DOMAIN cf.offsets_index = {}

\* what the call a reader is in or has finished returns when it runs alone
\* on the CompositeFile as it is now
C21_Alone(rd) ==
    IF rd.op = "space_usage" THEN space_usage(cf)
    ELSE IF rd.op = "open_read" THEN open_read(cf, rd.field)
    ELSE open_read_with_idx(cf, rd.field, rd.idx)

C21_LookupsAsAlone ==
    \A r \in Readers :
        /\ readers[r].pc = "done" => readers[r].result = C21_Alone(readers[r])
        /\ readers[r].pc = "got_range" =>
              slice_byte_range(cf.data, readers[r].found) = C21_Alone(readers[r])

\* C21: a sealed CompositeFile is immutable under reads. No step of a reader
\* (open_read, open_read_with_idx, space_usage) changes the directory, the
\* data or the file, and under every interleaving of the readers' steps each
\* lookup returns what it returns when run alone.
C21_SealedUnderConcurrentReads ==
    /\ []C21_LookupsAsAlone
    /\ [][readers' # readers => (cf' = cf /\ file' = file)]_vars

\* two readers are inside lookups of the same stored segment at once: one has
\* returned its bytes, the other holds the range and has not sliced yet
C21_Witness ==
    /\ cf.status = "ok"
    /\ readers[1].pc = "done" /\ readers[1].op = "open_read_with_idx"
    /\ readers[1].result.some /\ readers[1].result.bytes # <<>>
    /\ readers[2].pc = "got_range" /\ readers[2].found.some
    /\ readers[2].field = readers[1].field /\ readers[2].idx = readers[1].idx
    /\ Cardinality(DOMAIN cf.offsets_index) >= 2

\* the footer close writes for cw when no write fails
C22_Footer == SubSeq(close(cw), Len(cw.write) + 1, Len(close(cw)))

\* the bytes of the write_all calls of io[1..k] that returned Ok
RECURSIVE C22_Taken(_)
C22_Taken(k) ==
    IF k = 0 THEN <<>>
    ELSE C22_Taken(k - 1) \o (IF io[k].call = "write_all" /\ io[k].ok THEN io[k].bytes ELSE <<>>)

\* C22: an I/O failure during close() is propagated and not retried. Once
\* close has returned, a call that failed is the last call it made (nothing
\* is written after it, it is not repeated, terminate is not called) and
\* close returned an error; terminate is called only as the last call, after
\* writes that all succeeded and that make up the whole footer; the bytes
\* the writer took are the payload followed by a prefix of the footer.
C22_CloseFailurePropagated ==
    cw.state \in {"closed", "failed"} =>
        /\ io # <<>>
        /\ \A k \in 1..Len(io) :
              /\ ~io[k].ok => k = Len(io) /\ cw.state = "failed"
              /\ io[k].call = "terminate" =>
                    /\ k = Len(io)
                    /\ \A j \in 1..(k - 1) : io[j].call = "write_all" /\ io[j].ok
                    /\ C22_Taken(k - 1) = C22_Footer
        /\ cw.state = "failed" <=> ~io[Len(io)].ok
        /\ io[Len(io)].call = "write_all" => ~io[Len(io)].ok
        /\ file = cw.write \o C22_Taken(Len(io))
        /\ Len(C22_Taken(Len(io))) <= Len(C22_Footer)
        /\ C22_Taken(Len(io)) = SubSeq(C22_Footer, 1, Len(C22_Taken(Len(io))))
        /\ cw.state = "closed" => file = close(cw)

\* close failed on a write in the middle of the footer of two segments: the
\* count and the first entry were written, the failed write is the last call
C22_Witness ==
    /\ cw.state = "failed"
    /\ Len(cw.offsets) = 2
    /\ Len(io) = 5
    /\ io[5].call = "write_all" /\ ~io[5].ok
    /\ Len(file) > Len(cw.write)

\* C23: serialization round trip. For every value x of u8, u16, u32, u64,
\* u128, i64, bool, text, and of sequences and pairs of these, deserialize
\* applied to the bytes serialize(x) produced returns a value equal to x (and
\* leaves the bytes that follow them unread).
C23_RoundTrip ==
    (ser.stage = "deserialized" /\ ser.from = "serialized" /\ ser.ty.k # "VInt") =>
        /\ ser.de.ok
        /\ ser.de.val = ser.x
        /\ ser.de.rest = ser.tail

\* a pair of a text and a sequence of u64 went through serialize and
\* deserialize with other bytes behind it
C23_Witness ==
    /\ ser.stage = "deserialized" /\ ser.from = "serialized"
    /\ ser.ty = PairOf(Ty("String"), VecOf(Ty("u64")))
    /\ ser.x[1] = PoYo /\ Len(ser.x[2]) = 1
    /\ ser.tail # <<>>
    /\ ser.de.ok

\* u64::MAX
C24_U64Max == << U64_LIMB - 1, U64_LIMB - 1, 255 >>

\* C24: VInt round-trips for every 64-bit unsigned value. Decoding the bytes
\* that encoding VInt(v) produced returns v and consumes all of those bytes
\* and none of the bytes behind them, for the values drawn from 0 up to
\* 2^64 - 1; on the values a number of the model can hold the encoding is
\* the one the composite file writes.
C24_VIntRoundTrip ==
    (ser.stage = "deserialized" /\ ser.from = "serialized" /\ ser.ty.k = "VInt") =>
        /\ ser.de.ok
        /\ ser.de.val = ser.x
        /\ ser.de.rest = ser.tail
        /\ ser.bytes = VInt_serialize_u64(ser.x) \o ser.tail
        /\ (ser.x[3] = 0 /\ ser.x[2] < 8) =>
              VInt_serialize(U64_to_nat(ser.x)) = VInt_serialize_u64(ser.x)

\* VInt(u64::MAX) was encoded, with other bytes behind it, and decoded
C24_Witness ==
    /\ ser.stage = "deserialized" /\ ser.from = "serialized" /\ ser.ty.k = "VInt"
    /\ ser.x = C24_U64Max
    /\ ser.tail # <<>>
    /\ ser.de.ok /\ ser.de.val = C24_U64Max

\* 2^(7k) as a u64, k in 1..9
C25_Pow7(k) == [j \in 1..3 |-> IF j = (k \div 4) + 1 THEN 2 ^ (7 * (k % 4)) ELSE 0]

\* the number of bytes the VInt of the value serialized took
C25_Len == Len(ser.bytes) - Len(ser.tail)

\* C25: VInt encoded length. VInt(v) encodes to 1 byte for 0..127, 2 bytes
\* for 128..16383, 3 bytes from 16384 on, one more byte for every further 7
\* bits of magnitude (1 + the number of k in 1..9 with v >= 2^(7k)), and 10
\* bytes for u64::MAX; the length is never below 1 or above 10.
C25_VIntLength ==
    (ser.stage = "serialized" /\ ser.ty.k = "VInt") =>
        /\ C25_Len = 1 + Cardinality({ k \in 1..9 : U64_le(C25_Pow7(k), ser.x) })
        /\ C25_Len >= 1 /\ C25_Len <= 10
        /\ U64_le(ser.x, U64_from(127)) => C25_Len = 1
        /\ (U64_le(U64_from(128), ser.x) /\ U64_le(ser.x, U64_from(16383))) => C25_Len = 2
        /\ (U64_le(U64_from(16384), ser.x) /\ U64_le(ser.x, U64_from((2 ^ 21) - 1))) => C25_Len = 3
        /\ ser.x = C24_U64Max => C25_Len = 10

\* VInt(16384), the least value of three bytes, was encoded
C25_Witness ==
    /\ ser.stage = "serialized" /\ ser.ty.k = "VInt"
    /\ ser.x = U64_from(16384)
    /\ C25_Len = 3

\* C26: for every FixedSize type (u8, u16, u32, u64, u128, i64, f32, f64,
\* bool, unit, pairs of fixed-size types) and every value of it drawn, the
\* number of bytes serialize wrote (and num_bytes counts) equals the
\* declared SIZE_IN_BYTES; unit writes zero bytes.
C26_FixedSizeLength ==
    (ser.stage = "serialized" /\ FixedSize(ser.ty)) =>
        /\ Len(ser.bytes) - Len(ser.tail) = SIZE_IN_BYTES(ser.ty)
        /\ num_bytes(ser.ty, ser.x) = SIZE_IN_BYTES(ser.ty)
        /\ ser.ty.k = "unit" => (ser.bytes = ser.tail /\ SIZE_IN_BYTES(ser.ty) = 0)

\* a pair of a u16 and a pair of an f64 and a u128 was serialized: 26 bytes
C26_Witness ==
    /\ ser.stage = "serialized"
    /\ ser.ty = PairOf(Ty("u16"), PairOf(Ty("f64"), Ty("u128")))
    /\ FixedSize(ser.ty)
    /\ Len(ser.bytes) - Len(ser.tail) = 26

\* C27: boolean decode is strict. bool serializes to the single byte 0
\* (false) or 1 (true); deserializing a byte 0 gives false, 1 gives true, and
\* any other byte (2..255) fails with an invalid-data error: it is not
\* coerced to true or false.
C27_BoolStrict ==
    /\ (ser.stage = "serialized" /\ ser.ty.k = "bool") =>
          ser.bytes = << IF ser.x THEN 1 ELSE 0 >> \o ser.tail
    /\ (ser.stage = "deserialized" /\ ser.ty.k = "bool" /\ ser.bytes # <<>>) =>
          IF ser.bytes[1] \in {0, 1}
          THEN ser.de.ok /\ ser.de.val = (ser.bytes[1] = 1) /\ ser.de.rest = Tail(ser.bytes)
          ELSE ~ser.de.ok /\ ser.de.kind = "InvalidData"

\* the byte 2, followed by a 1, was given to bool's deserialize and rejected
C27_Witness ==
    /\ ser.stage = "deserialized" /\ ser.ty.k = "bool"
    /\ ser.bytes = << 2, 1 >>
    /\ ~ser.de.ok

\* the VInt length prefix of the bytes given to the text decoder
C28_Prefix == VInt_deserialize(ser.bytes)

\* C28: text decode reads exactly the declared number of bytes. For every
\* input whose length prefix decodes, a successful String (or Cow<str>)
\* deserialize returns a string whose byte length equals the prefix, having
\* consumed the prefix and exactly that many bytes and left the later bytes
\* unread; it never returns a string shorter than declared; and it fails
\* when the declared bytes are not valid UTF-8.
C28_TextDecodeExact ==
    (/\ ser.stage = "deserialized"
     /\ ser.ty.k \in {"String", "CowStr"}
     /\ C28_Prefix.ok) =>
        /\ ser.de.ok =>
              /\ U64_from(Len(ser.de.val)) = C28_Prefix.u64
              /\ ser.de.val = SubSeq(C28_Prefix.rest, 1, U64_to_nat(C28_Prefix.u64))
              /\ ser.de.rest = SubSeq(C28_Prefix.rest, U64_to_nat(C28_Prefix.u64) + 1,
                                      Len(C28_Prefix.rest))
        /\ (/\ U64_le(C28_Prefix.u64, U64_from(Len(C28_Prefix.rest)))
            /\ ~utf8_valid(SubSeq(C28_Prefix.rest, 1, U64_to_nat(C28_Prefix.u64)))) => ~ser.de.ok

\* the encodings of the first n elements of the sequence serialized, one
\* after the other
C29_Elements(n) == Flatten([i \in 1..n |-> serialize(ser.ty.of, ser.x[i])])

\* C29: a sequence encodes as the VInt of its element count followed by each
\* element's own encoding, in order; a byte string (Cow<[u8]>) encodes to
\* byte for byte the same output as the Vec<u8> of the same contents (the
\* VInt length, then the raw bytes), and either type decodes what the other
\* encoded, and decodes any other input as the other does.
C29_SequenceEncoding ==
    /\ (ser.stage = "serialized" /\ ser.ty.k = "Vec") =>
          LET count == VInt_deserialize(ser.bytes)
          IN /\ count.ok /\ count.u64 = U64_from(Len(ser.x))
             /\ \A i \in 1..Len(ser.x) :
                   LET at == Len(C29_Elements(i - 1))
                       enc == serialize(ser.ty.of, ser.x[i])
                   IN SubSeq(count.rest, at + 1, at + Len(enc)) = enc
             /\ count.rest = C29_Elements(Len(ser.x)) \o ser.tail
    /\ (ser.stage = "serialized" /\ ser.ty \in { VecOf(Ty("u8")), Ty("CowBytes") }) =>
          /\ serialize(Ty("CowBytes"), ser.x) = serialize(VecOf(Ty("u8")), ser.x)
          /\ ser.bytes = VInt_serialize(Len(ser.x)) \o ser.x \o ser.tail
          /\ deserialize(Ty("CowBytes"), ser.bytes, ser.mem) = DeOk(ser.x, ser.tail)
          /\ deserialize(VecOf(Ty("u8")), ser.bytes, ser.mem) = DeOk(ser.x, ser.tail)
    /\ (ser.stage = "deserialized" /\ ser.ty \in { VecOf(Ty("u8")), Ty("CowBytes") }) =>
          /\ ser.de = deserialize(Ty("CowBytes"), ser.bytes, ser.mem)
          /\ ser.de = deserialize(VecOf(Ty("u8")), ser.bytes, ser.mem)

\* a byte string of LongLen bytes (a length prefix of two bytes) was
\* serialized as a Cow<[u8]>, with bytes behind it, and is decoded as Vec<u8>
C29_Witness ==
    /\ ser.stage = "serialized" /\ ser.ty = Ty("CowBytes")
    /\ Len(ser.x) = LongLen /\ ser.tail # <<>>
    /\ Len(ser.bytes) = (2 + LongLen) + Len(ser.tail)
    /\ deserialize(VecOf(Ty("u8")), ser.bytes, ser.mem).ok

\* the address as a number: its page id and offset put side by side
C30_Linear(addr) == (Addr_page_id(addr) * PAGE_SIZE) + Addr_page_local_addr(addr)

\* no two allocations share an address: the ranges [addr, addr + len) handed
\* out (those of at least one byte) are pairwise disjoint
C30_NoRangeTwice ==
    \A i \in 1..Len(allocs) : \A j \in (i + 1)..Len(allocs) :
        \/ allocs[i].len = 0
        \/ allocs[j].len = 0
        \/ C30_Linear(allocs[i].addr) + allocs[i].len <= C30_Linear(allocs[j].addr)
        \/ C30_Linear(allocs[j].addr) + allocs[j].len <= C30_Linear(allocs[i].addr)

\* a step keeps every page, lowers no cursor, and moves at most the cursor
\* of the page that was the last one
C30_StepMonotonic ==
    /\ Len(pages') >= Len(pages)
    /\ \A p \in 1..Len(pages) :
          /\ pages'[p].len >= pages[p].len
          /\ p < Len(pages) => pages'[p].len = pages[p].len

\* C30: arena allocation is monotonic. Over any sequence of allocate_space,
\* write_at and read calls the page count never decreases, no page's cursor
\* ever decreases, only the last page's cursor can advance, and no range that
\* was allocated is handed out again.
C30_AllocationMonotonic ==
    /\ []C30_NoRangeTwice
    /\ [][C30_StepMonotonic]_vars

\* C31: pop undoes the latest push. A pop() on a writer with a pushed segment
\* leaves as_str() as it was before that segment was pushed, whatever the
\* segment, the setting of expand_dots and the end markers set since; a pop()
\* on a writer with no pushed segment changes nothing; clear() leaves the
\* empty path and no pushed segment.
C31_PopStep ==
    jw'.op = "pop" =>
        IF jw.before # <<>>
        THEN /\ as_str(jw'.w) = jw.before[Len(jw.before)]
             /\ Len(jw'.w.indices) = Len(jw.w.indices) - 1
        ELSE jw'.w = jw.w

C31_ClearStep ==
    jw'.op = "clear" => as_str(jw'.w) = <<>> /\ jw'.w.indices = <<>>

C31_PopUndoesPush ==
    /\ [](Len(jw.before) = Len(jw.w.indices))
    /\ [][C31_PopStep /\ C31_ClearStep]_vars

\* C31 witness: "b.c" pushed with expand_dots enabled, the end marker set,
\* another segment pushed and popped: the path is "b\x01c\0" again.
C31_Witness ==
    /\ jw.op = "pop"
    /\ jw.w.expand_dots
    /\ Len(jw.w.indices) = 1
    /\ as_str(jw.w) = << 98, JSON_PATH_SEGMENT_SEP, 99, JSON_END_OF_PATH >>

\* C32: expand_dots affects only the segment being pushed. A push(s) keeps
\* every byte the path held before it and appends, after the separator when a
\* segment was pushed already, s with every '.' replaced by the separator when
\* expand_dots is enabled and s as it is when disabled.
C32_PushStep ==
    jw'.op = "push" =>
        LET s == jw'.segs[Len(jw'.segs)]
            sep == IF jw.w.indices # <<>> THEN << JSON_PATH_SEGMENT_SEP >> ELSE <<>>
            expanded == [k \in 1..Len(s) |->
                            IF s[k] = 46 THEN JSON_PATH_SEGMENT_SEP ELSE s[k]]
        IN /\ Len(jw'.segs) = Len(jw.segs) + 1
           /\ as_str(jw'.w) = as_str(jw.w) \o sep
                                \o (IF jw.w.expand_dots THEN expanded ELSE s)

C32_ExpandDotsOnlyOnPushed == [][C32_PushStep]_vars

\* C32 witness: "b.c" pushed while disabled, then "b.c" pushed while
\* enabled: the path is "b.c\x01b\x01c".
C32_Witness ==
    /\ jw.op = "push"
    /\ jw.w.expand_dots
    /\ jw.segs = << <<98, 46, 99>>, <<98, 46, 99>> >>
    /\ as_str(jw.w) = << 98, 46, 99, JSON_PATH_SEGMENT_SEP, 98, JSON_PATH_SEGMENT_SEP, 99 >>

\* the segments joined by one separator between consecutive ones
RECURSIVE C33_Join(_)
C33_Join(segs) ==
    IF segs = <<>> THEN <<>>
    ELSE IF Len(segs) = 1 THEN segs[1]
    ELSE C33_Join(SubSeq(segs, 1, Len(segs) - 1))
         \o << JSON_PATH_SEGMENT_SEP >> \o segs[Len(segs)]

\* C33: path shape. On a writer with expand_dots disabled and set_end() never
\* called, after any sequence of push, pop and clear, as_str() is the pushed
\* segments in push order with exactly one separator between consecutive
\* segments, none before the first and none after the last.
C33_PathShape ==
    /\ as_str(jw.w) = C33_Join(jw.segs)
    /\ Len(jw.w.indices) = Len(jw.segs)

\* C33 witness: "a", "b.c" and "ぽ" pushed and none of them popped.
C33_Witness ==
    /\ jw.op = "push"
    /\ jw.segs = << <<97>>, <<98, 46, 99>>, <<227, 129, 189>> >>
    /\ as_str(jw.w) = << 97, 1, 98, 46, 99, 1, 227, 129, 189 >>

\* an allocate_space step whose request the last page accepts
C34_ServedByCurrentPage ==
    /\ ret'.op = "allocate_space"
    /\ ret'.outcome = "ok"
    /\ Len(allocs') = Len(allocs) + 1
    /\ is_available(pages[Len(pages)], ret'.len)

\* C34: every address served from the current page decodes back to its
\* origin. Whatever the page's state and whatever length it accepts, 0
\* included, the address returned has the id of the serving page as its page
\* id and the cursor before the call as its local address, and the cursor
\* advances by exactly the length.
C34_AddressDecodesToOrigin ==
    [][C34_ServedByCurrentPage =>
          /\ Addr_page_id(ret'.addr) = pages[Len(pages)].page_id
          /\ Addr_page_local_addr(ret'.addr) = pages[Len(pages)].len
          /\ Len(pages') = Len(pages)
          /\ pages'[Len(pages)].len = pages[Len(pages)].len + ret'.len]_vars

\* the byte ranges of two allocations have no byte in common
C35_Apart(a, b) ==
    \/ Addr_page_id(a.addr) # Addr_page_id(b.addr)
    \/ Addr_page_local_addr(a.addr) + a.len <= Addr_page_local_addr(b.addr)
    \/ Addr_page_local_addr(b.addr) + b.len <= Addr_page_local_addr(a.addr)

\* any two allocations of non-zero length of at most one page are apart
C35_Disjoint ==
    \A i \in 1..Len(allocs) : \A j \in (i + 1)..Len(allocs) :
        (/\ allocs[i].len \in 1..PAGE_SIZE
         /\ allocs[j].len \in 1..PAGE_SIZE) => C35_Apart(allocs[i], allocs[j])

\* a write_at step on allocation i keeps the page count, every cursor, every
\* byte outside the range of allocation i and the bytes of every other
\* allocation (of those the bytes held by the buffer of its page)
C35_WriteStep ==
    nwrites' = nwrites + 1 =>
        LET i == ret'.i
            pid == Addr_page_id(allocs[i].addr)
            local == Addr_page_local_addr(allocs[i].addr)
        IN /\ Len(pages') = Len(pages)
           /\ \A p \in 1..Len(pages) :
                 /\ pages'[p].len = pages[p].len
                 /\ pages'[p].page_id = pages[p].page_id
                 /\ RLen(pages'[p].data) = RLen(pages[p].data)
                 /\ IF p = pid + 1
                    THEN /\ RTake(pages'[p].data, local) = RTake(pages[p].data, local)
                         /\ RDrop(pages'[p].data, local + allocs[i].len)
                               = RDrop(pages[p].data, local + allocs[i].len)
                    ELSE pages'[p].data = pages[p].data
           /\ \A j \in 1..Len(allocs) :
                 (j # i /\ allocs[j].len >= 1 /\ C35_Apart(allocs[i], allocs[j]))
                 => MemoryArena_slice(pages', allocs[j].addr, allocs[j].len)
                       = MemoryArena_slice(pages, allocs[j].addr, allocs[j].len)

\* a read step changes nothing of the arena
C35_ReadStep ==
    ret'.op = "read" =>
        /\ pages' = pages
        /\ MemoryArena_len(pages') = MemoryArena_len(pages)
        /\ MemoryArena_mem_usage(pages') = MemoryArena_mem_usage(pages)

\* C35: allocations are isolated. The byte ranges of two allocations of
\* non-zero length of at most one page are disjoint; a write_at on one
\* allocation changes only bytes inside it, no cursor, no page count and no
\* byte of another allocation; a read changes nothing.
C35_AllocationsIsolated ==
    /\ []C35_Disjoint
    /\ [][C35_WriteStep /\ C35_ReadStep]_vars

\* C36: arena structural invariant. The arena always holds at least one
\* page, the page at position i has page id i, every cursor is at most
\* PAGE_SIZE, and every address returned by allocate_space(len) designates a
\* range inside the buffer of an existing page.
C36_StructuralInvariant ==
    /\ Len(pages) >= 1
    /\ \A p \in 1..Len(pages) :
          /\ pages[p].page_id = p - 1
          /\ pages[p].len <= PAGE_SIZE
    /\ \A k \in 1..Len(allocs) :
          /\ Addr_page_id(allocs[k].addr) < Len(pages)
          /\ Addr_page_local_addr(allocs[k].addr) + allocs[k].len <= PAGE_SIZE

\* the lengths reported by space_usage, added up
RECURSIVE C37_TotalBytes(_)
C37_TotalBytes(usages) ==
    IF usages = {} THEN 0
    ELSE LET u == CHOOSE x \in usages : TRUE
         IN U64_to_nat(u.num_bytes) + C37_TotalBytes(usages \ {u})

\* C37: segments partition the data region. In a file written by the writer
\* and reopened, the range of the key opened first starts at 0, the range of
\* every key ends where the range of the key opened next begins, the range of
\* the key opened last ends at the footer start, which is the length of the
\* data region; and the lengths reported by space_usage add up to that length.
C37_SegmentsPartitionData ==
    cf.status # "none" =>
        LET n == Len(cw.offsets)
            range(k) == cf.offsets_index[cw.offsets[k].file_addr]
            footer_start == Len(file) - 4 - stored_footer_len(file)
        IN /\ cf.status = "ok"
           /\ Len(cf.data) = footer_start
           /\ Cardinality(DOMAIN cf.offsets_index) = n
           /\ n >= 1 => range(1).start = U64_from(0)
           /\ \A k \in 1..n : U64_le(range(k).start, range(k).end)
           /\ \A k \in 1..(n - 1) : range(k).end = range(k + 1).start
           /\ n >= 1 => range(n).end = U64_from(footer_start)
           /\ n = 0 => footer_start = 0
           /\ Cardinality(space_usage(cf)) = n
           /\ C37_TotalBytes(space_usage(cf)) = Len(cf.data)

\* C37 witness: a reopened file of three segments, two of them of the same
\* field and the same length, with 261 bytes of data.
C37_Witness ==
    /\ cf.status = "ok"
    /\ Len(cw.offsets) = 3
    /\ cw.offsets[1].file_addr.field = cw.offsets[3].file_addr.field
    /\ Len(cf.data) = 261
    /\ [field |-> cw.offsets[1].file_addr.field, idx |-> cw.offsets[1].file_addr.idx,
         num_bytes |-> U64_from(130)] \in space_usage(cf)
    /\ [field |-> cw.offsets[2].file_addr.field, idx |-> cw.offsets[2].file_addr.idx,
         num_bytes |-> U64_from(1)] \in space_usage(cf)

\* C38: a successfully opened composite file is safe to read. Whatever the
\* bytes open was given, footers no writer produced included, when open
\* returns success every entry of the directory has start <= end <=
\* footer_start, so open_read_with_idx panics for no key.
C38_OpenedIsSafeToRead ==
    cf.status = "ok" =>
        \A a \in DOMAIN cf.offsets_index :
            /\ U64_le(cf.offsets_index[a].start, cf.offsets_index[a].end)
            /\ U64_le(cf.offsets_index[a].end, U64_from(Len(cf.data)))
            /\ ~open_read_with_idx(cf, a.field, a.idx).panic

\* a footer entry as a value: the delta, then the key as field and idx
C39_FooterEntry == PairOf(Ty("VInt"), PairOf(Ty("u32"), Ty("VInt")))

\* the bytes that are left after the first n elements of the sequence decoded
C39_After(n) ==
    LET count == VInt_deserialize(ser.bytes)
        read == Len(Flatten([i \in 1..n |-> serialize(ser.ty.of, ser.x[i])]))
    IN SubSeq(count.rest, read + 1, Len(count.rest))

\* C39: decoding consumes exactly what encoding produced. Deserializing
\* serialize(x) followed by any bytes t returns x and leaves exactly t; so a
\* pair is the encoding of its left component followed by that of its right
\* one and decodes component by component, a sequence decodes element by
\* element, and a footer entry of the composite file decodes as the delta,
\* then the key as its field followed by the VInt of its idx.
C39_DecodeConsumesEncoding ==
    (ser.stage = "deserialized" /\ ser.from = "serialized") =>
        /\ ser.de = DeOk(ser.x, ser.tail)
        /\ ser.bytes = serialize(ser.ty, ser.x) \o ser.tail
        /\ ser.ty.k = "pair" =>
              LET left == deserialize(ser.ty.l, ser.bytes, ser.mem)
                  right == deserialize(ser.ty.r, left.rest, ser.mem)
              IN /\ serialize(ser.ty, ser.x)
                       = serialize(ser.ty.l, ser.x[1]) \o serialize(ser.ty.r, ser.x[2])
                 /\ left = DeOk(ser.x[1], serialize(ser.ty.r, ser.x[2]) \o ser.tail)
                 /\ right = DeOk(ser.x[2], ser.tail)
        /\ ser.ty.k = "Vec" =>
              /\ \A i \in 1..Len(ser.x) :
                    deserialize(ser.ty.of, C39_After(i - 1), ser.mem)
                        = DeOk(ser.x[i], C39_After(i))
              /\ C39_After(Len(ser.x)) = ser.tail
        /\ ser.ty = C39_FooterEntry =>
              LET delta == VInt_deserialize(ser.bytes)
                  file_addr == FileAddr_deserialize(delta.rest)
                  key == FileAddr_new(ser.x[2][1][1] + (LIMB * ser.x[2][1][2]), ser.x[2][2])
              IN /\ delta.ok
                 /\ delta.u64 = ser.x[1]
                 /\ delta.rest = FileAddr_serialize(key) \o ser.tail
                 /\ file_addr = DeOk(key, ser.tail)
                 /\ serialize(ser.ty, ser.x)
                       = VInt_serialize_u64(ser.x[1]) \o Field_serialize(key.field)
                            \o VInt_serialize_u64(key.idx)

\* C39 witness: a footer entry with a delta of 130 (two bytes), field 300 and
\* idx 200 (two bytes) was decoded with other bytes behind it.
C39_Witness ==
    /\ ser.stage = "deserialized" /\ ser.from = "serialized"
    /\ ser.ty = C39_FooterEntry
    /\ ser.x = << <<130, 0, 0>>, << <<300, 0>>, <<200, 0, 0>> >> >>
    /\ ser.tail # <<>>
    /\ Len(ser.bytes) = 8 + Len(ser.tail)
    /\ ser.de.ok

====
